---- MODULE Spec2Model ----
(***************************************************************************)
(* A model of the Whist game session of backend/src/main.py: the classes   *)
(* Card, Deck and Game (add_player, start_game, _start_new_round,          *)
(* remove_player, make_bid, play_card, _evaluate_trick, _score_round).     *)
(*                                                                         *)
(* A card is its index 0..51 in the unshuffled deck of Deck.reset (suit    *)
(* major, value minor).  A player id is a positive integer; None is 0 for  *)
(* a player, -1 for a card and "none" for a suit.  A Python dict is a      *)
(* function whose DOMAIN is its key set; current_round, whose insertion    *)
(* order _evaluate_trick iterates, is a sequence of [player, card]         *)
(* entries.  An operation that raises leaves the mutations it made before  *)
(* the raise, and records the exception's name as its outcome.             *)
(***************************************************************************)
EXTENDS Integers, Sequences, FiniteSets, TLC

(* ---------------------------------------------------------------- bounds *)

\* How many permutations of SeedTable random.shuffle draws from.
NumSeeds == 2

\* The number of state-changing operations Spec explores.
MaxSteps == 17

\* The permutation of SeedTable LongSpec deals every round with.
LongSeed == 1

\* The roster members Spec removes in one game.
MaxRemovals == 1

\* The number of state-changing operations RegistrySpec explores.
MaxRegSteps == 10

\* The roster members RegistrySpec removes in one game.
MaxRegRemovals == 1

\* The humans that connect to the server in ServerSpec.
MaxHumans == 2

\* The number of state-changing operations ServerSpec explores.
MaxServerSteps == 10

\* The handle_ai_turns tasks the clients of ServerSpec and ConcSpec create.
MaxSchedulers == 2

\* The operations of a game of one human and two AI players.
MaxAiSteps == 22

\* The state-changing operations ConcSpec explores.
MaxConcSteps == 15

\* The Game objects the clients of ServerSpec and ConcSpec create.
MaxGames == 2

\* The websockets the host has open at a time.
MaxSockets == 2

\* The rounds the player of SoloSpec bids in.
MaxSoloRounds == 53


(* ------------------------------------------------------- program constants *)

min_players == 3

max_players == 5

NumValues == 13

NoPlayer == 0

NoCard == -1

\* None for a game: a lookup that finds none.  A game id is the number of
\* the Game object in the order of creation (the ids of the code are
\* timestamps).
NoGame == 0

NoSuit == "none"

Suits == <<"hearts", "diamonds", "clubs", "spades">>

DeckSize == Len(Suits) * NumValues

\* An id that never joins: the roster is full before its turn.
Outsider == max_players + 1

Min(a, b) == IF a <= b THEN a ELSE b

(* ------------------------------------------------------------------ cards *)

\* Card.suit of the card with index c of the unshuffled deck.
Suit(c) == Suits[(c \div NumValues) + 1]

\* Card.power: the index of the card's value in "2".."A".
Power(c) == c % NumValues

\* Deck.reset before the shuffle: one card per suit and value, suit major.
FreshDeck == [i \in 1..DeckSize |-> i - 1]

\* The permutations random.shuffle is drawn from: entry i of a table is the
\* 0-based position in the fresh deck of the card shuffled to position i.
SeedTable ==
    <<
       <<46, 20, 44, 13, 50, 19,  4,  8, 12,  1, 11, 31, 35,
         21, 25, 16, 30, 26,  5, 40, 37,  7, 38, 33, 14, 49,
         24, 18, 42, 10,  6, 41,  3, 45, 23, 43, 29,  0, 47,
         17, 22,  9,  2, 15, 39, 28, 27, 34, 48, 32, 36, 51>>,
       <<18, 35, 33, 36, 39,  7,  8,  0, 51, 32, 29, 27, 17,
         26, 44,  4,  3, 22,  6, 48, 40, 47, 46,  1, 30, 23,
         42,  2, 14, 12, 24, 15, 28, 11, 49, 21, 38, 19, 20,
         34,  9, 25, 16,  5, 45, 10, 41, 13, 50, 31, 43, 37>>,
       <<50, 18, 41, 40,  8, 48, 15, 13, 14, 42, 10,  6,  2,
         39, 43, 37, 25, 35, 45, 16, 11, 47,  7, 44, 27, 31,
          3, 21, 36, 38, 32,  5,  9, 29, 49, 34, 26, 20, 23,
         28, 33,  4,  1, 17, 24, 22, 46, 19,  0, 51, 30, 12>>
    >>

\* The shuffles the callers' rounds are dealt with.
Seeds == 1..NumSeeds


\* Deck.reset: the fresh deck, shuffled by the permutation `seed` names.
Shuffled(seed) ==
    [i \in 1..DeckSize |-> FreshDeck[SeedTable[seed][i] + 1]]

\* Deck.draw: pop the last card, or None from an empty deck.
Draw(d) ==
    IF Len(d) > 0
    THEN [card |-> d[Len(d)], deck |-> SubSeq(d, 1, Len(d) - 1)]
    ELSE [card |-> NoCard, deck |-> d]


(* ------------------------------------------------------------------ state *)

VARIABLES
    player_order,            \* Game.player_order: the roster, in join order
    players,                 \* Game.players: id -> hand (a sequence of cards)
    deck,                    \* Game.deck.cards
    current_player,          \* Game.current_player
    started,                 \* Game.started
    trump_card,              \* Game.trump_card
    current_round,           \* Game.current_round: the trick, in play order
    bids,                    \* Game.bids
    tricks_won,              \* Game.tricks_won
    scores,                  \* Game.scores
    round_number,            \* Game.round_number
    cards_per_round,         \* Game.cards_per_round
    phase,                   \* Game.phase
    led_suit,                \* Game.led_suit
    dealer_index,            \* Game.dealer_index
    game_stage,              \* Game.game_stage
    no_trump_rounds_played,  \* Game.no_trump_rounds_played
    player_names,            \* Game.player_names: id -> display name
    ai_players,              \* Game.ai_players: the keys of the registry
    others,                  \* the Game objects the server created after
                             \* the first: number -> Game
    created,                 \* the number of Game objects the server created
    active_connections,      \* ConnectionManager.active_connections: id ->
                             \* the websocket registered for it
    handlers,                \* the websocket_endpoint tasks: websocket -> the
                             \* task's player_name, its position and the
                             \* broadcast it is sending
    games,                   \* ConnectionManager.games: its keys
    player_to_game,          \* ConnectionManager.player_to_game: id -> game id
    schedulers,              \* the handle_ai_turns tasks: each one's Game and
                             \* what its pass has decided
    running,                 \* the task the event loop runs past this step
    sent,                    \* the send_json calls of the last step
    last_call,               \* the last operation called, its arguments and outcome
    steps,                   \* history: state-changing operations so far
    tricks_played,           \* history: tricks resolved since the last deal
    roster_changed,          \* history: a member was removed since the last deal
    removals,                \* history: members removed so far
    scored,                  \* history: what _score_round last read
    resolved                 \* history: the trick _evaluate_trick last judged

gamevars ==
    <<player_order, players, deck, current_player, started, trump_card,
      current_round, bids, tricks_won, scores, round_number, cards_per_round,
      phase, led_suit, dealer_index, game_stage, no_trump_rounds_played,
      player_names, ai_players>>

\* The ConnectionManager, the tasks of the event loop, the Game objects
\* beside the first and the messages sent.
svars ==
    <<others, created, active_connections, handlers, games, player_to_game,
      schedulers, running, sent>>

vars ==
    <<gamevars, svars, last_call, steps, tricks_played, roster_changed,
      removals, scored, resolved>>

\* A pass of handle_ai_turns that has decided nothing.
NoTurn == [op |-> "none"]

\* The event loop runs no task: every task is suspended at an await.
NoTask == [task |-> "none"]

EmptyMap == [p \in {} |-> 0]

\* Game.__init__ for the first Game; Deck.__init__ shuffles the deck it
\* builds.  The module's ConnectionManager is empty and no task runs.
Init ==
    /\ player_order = <<>>
    /\ players = EmptyMap
    /\ deck \in {Shuffled(seed) : seed \in Seeds}
    /\ current_player = NoPlayer
    /\ started = FALSE
    /\ trump_card = NoCard
    /\ current_round = <<>>
    /\ bids = EmptyMap
    /\ tricks_won = EmptyMap
    /\ scores = EmptyMap
    /\ round_number = 1
    /\ cards_per_round = 1
    /\ phase = "waiting"
    /\ led_suit = NoSuit
    /\ dealer_index = 0
    /\ game_stage = "ascending"
    /\ no_trump_rounds_played = 0
    /\ player_names = EmptyMap
    /\ ai_players = {}
    /\ others = EmptyMap
    /\ created = 0
    /\ active_connections = EmptyMap
    /\ handlers = EmptyMap
    /\ games = {}
    /\ player_to_game = EmptyMap
    /\ schedulers = <<>>
    /\ running = NoTask
    /\ sent = {}
    /\ last_call = [op |-> "init", player |-> NoPlayer, arg |-> 0,
                    ret |-> "None", game |-> NoGame]
    /\ steps = 0
    /\ tricks_played = 0
    /\ roster_changed = FALSE
    /\ removals = 0
    /\ scored = [round |-> 0, cards |-> 0, tricks_won |-> EmptyMap,
                 bids |-> EmptyMap, changed |-> FALSE]
    /\ resolved = [trick |-> <<>>, led |-> NoSuit, trump |-> NoCard,
                   stage |-> "ascending", winner |-> NoPlayer]

(* ---------------------------------------------------------------- helpers *)

Range(s) == {s[k] : k \in 1..Len(s)}

\* list.index: the 1-based position of p in the sequence s (p is in s).
IndexOf(s, p) == CHOOSE k \in 1..Len(s) : s[k] = p /\ \A j \in 1..(k - 1) : s[j] # p

\* list.remove: s without its first p.
RemoveFirst(s, p) ==
    IF p \in Range(s)
    THEN LET k == IndexOf(s, p) IN SubSeq(s, 1, k - 1) \o SubSeq(s, k + 1, Len(s))
    ELSE s

\* list.pop(i) at the 1-based position k.
RemoveAt(s, k) == SubSeq(s, 1, k - 1) \o SubSeq(s, k + 1, Len(s))

\* A faulty pop that leaves the key in place.
WithoutPop(f, p) == f

\* dict.pop(p, None).
Without(f, p) == [q \in DOMAIN f \ {p} |-> f[q]]

\* dict[p] = v: a new key is added, an old one keeps its place.
With(f, p, v) == [q \in DOMAIN f \cup {p} |-> IF q = p THEN v ELSE f[q]]

\* player_order[i] for the 0-based index i.
At(s, i) == s[i + 1]

\* The first Game object, which the variables hold, with the history of its
\* round; game_id is the number of the object, in the order of creation.
Game ==
    [game_id |-> 1,
     player_order |-> player_order,
     players |-> players,
     deck |-> deck,
     current_player |-> current_player,
     started |-> started,
     trump_card |-> trump_card,
     current_round |-> current_round,
     bids |-> bids,
     tricks_won |-> tricks_won,
     scores |-> scores,
     round_number |-> round_number,
     cards_per_round |-> cards_per_round,
     phase |-> phase,
     led_suit |-> led_suit,
     dealer_index |-> dealer_index,
     game_stage |-> game_stage,
     no_trump_rounds_played |-> no_trump_rounds_played,
     player_names |-> player_names,
     ai_players |-> ai_players,
     tricks_played |-> tricks_played,
     roster_changed |-> roster_changed,
     scored |-> scored,
     resolved |-> resolved]

\* What a call leaves: the Game `self` as the call left it, and the record
\* of the call: the operation, its arguments, what it returned or raised and
\* the Game it was called on.
Outcome(self, op, p, a, r) ==
    [game |-> self,
     call |-> [op |-> op, player |-> p, arg |-> a, ret |-> r,
               game |-> self.game_id]]

\* The call was made on the first Game: the variables take what it left.
Call(out) ==
    \E o \in {out} :
        /\ last_call' = o.call
        /\ player_order' = o.game.player_order
        /\ players' = o.game.players
        /\ deck' = o.game.deck
        /\ current_player' = o.game.current_player
        /\ started' = o.game.started
        /\ trump_card' = o.game.trump_card
        /\ current_round' = o.game.current_round
        /\ bids' = o.game.bids
        /\ tricks_won' = o.game.tricks_won
        /\ scores' = o.game.scores
        /\ round_number' = o.game.round_number
        /\ cards_per_round' = o.game.cards_per_round
        /\ phase' = o.game.phase
        /\ led_suit' = o.game.led_suit
        /\ dealer_index' = o.game.dealer_index
        /\ game_stage' = o.game.game_stage
        /\ no_trump_rounds_played' = o.game.no_trump_rounds_played
        /\ player_names' = o.game.player_names
        /\ ai_players' = o.game.ai_players
        /\ tricks_played' = o.game.tricks_played
        /\ roster_changed' = o.game.roster_changed
        /\ scored' = o.game.scored
        /\ resolved' = o.game.resolved

(* ------------------------------------------------------------ add_player *)

\* A faulty guard that lets one member too many in.
RosterClosedLate(self) == Len(self.player_order) > max_players \/ self.started

\* The guard of add_player: the roster is full or the game has started.
RosterClosed(self) == Len(self.player_order) >= max_players \/ self.started

\* What add_player does to the roster and the per-player dicts: nothing when
\* the guard refuses, nothing for an id that is already a member.
Joined(self, player_id) ==
    IF ~RosterClosed(self) /\ player_id \notin Range(self.player_order)
    THEN [self EXCEPT !.player_order = Append(@, player_id),
                      !.players = With(@, player_id, <<>>),
                      !.scores = With(@, player_id, 0),
                      !.tricks_won = With(@, player_id, 0)]
    ELSE self

\* Game.add_player.
add_player(self, player_id) ==
    Outcome(Joined(self, player_id), "add_player", player_id, 0,
            IF RosterClosed(self) THEN "False" ELSE "True")

\* The id "ai_player_<k>"; the human ids are 1..Outsider.
AiId(k) == Outsider + k

\* The display name "Computer <k>"; a human's name is a string.
ComputerName(k) == <<"Computer", k>>

\* Game.add_ai_player: the id is numbered by the size of the registry; the
\* registry entry and the name are written whatever add_player returns.  The
\* call returns the id.
add_ai_player(self) ==
    LET ai_id == AiId(Cardinality(self.ai_players) + 1)
        registered == [self EXCEPT !.ai_players = @ \cup {ai_id}]
    IN Outcome([Joined(registered, ai_id) EXCEPT
                   !.player_names =
                       With(@, ai_id,
                            ComputerName(Cardinality(registered.ai_players)))],
               "add_ai_player", ai_id, 0, "Id")

(* ------------------------------------------------------ _start_new_round *)

\* The inner loop of the deal for the roster member at position k (1-based):
\* cpr calls of Deck.draw, those before it having taken (k - 1) * cpr cards or
\* the whole deck.  draw pops from the end; a draw from the empty deck
\* returns None, which is not appended.
DealtHand(d, k, cpr) ==
    LET taken == Min(Len(d), (k - 1) * cpr)
    IN [j \in 1..Min(cpr, Len(d) - taken) |-> d[Len(d) - taken - j + 1]]

\* The outer loop of the deal: every roster member, in roster order, gets a
\* fresh hand; what is left of the deck d, and the hands.
Deal(order, cpr, d, hands) ==
    [deck |-> SubSeq(d, 1, Len(d) - Min(Len(d), Len(order) * cpr)),
     players |-> [q \in DOMAIN hands \cup Range(order) |->
                     IF q \in Range(order)
                     THEN DealtHand(d, IndexOf(order, q), cpr)
                     ELSE hands[q]]]

\* The trump card of a new round: drawn unless the stage is no_trump.
TrumpDraw(d, stage) ==
    IF stage # "no_trump" THEN Draw(d) ELSE [card |-> NoCard, deck |-> d]

\* Game._start_new_round: the Game after it, the deck being shuffled by
\* `seed`.  The caller has at least one roster member (start_game needs
\* min_players, play_card is called by a member), so the modulus is never by
\* zero.
StartNewRound(self, seed) ==
    LET new_round(g) ==
            LET dealt == Deal(g.player_order, g.cards_per_round, Shuffled(seed),
                              g.players)
                trump == TrumpDraw(dealt.deck, g.game_stage)
                dealer == (g.dealer_index + 1) % Len(g.player_order)
            IN [g EXCEPT
                   !.deck = trump.deck,
                   !.current_round = <<>>,
                   !.bids = EmptyMap,
                   !.tricks_won = [p \in Range(g.player_order) |-> 0],
                   !.phase = "bidding",
                   !.players = dealt.players,
                   !.trump_card = trump.card,
                   !.dealer_index = dealer,
                   !.current_player =
                       At(g.player_order, (dealer + 1) % Len(g.player_order)),
                   !.tricks_played = 0,
                   !.roster_changed = FALSE]
    IN CHOOSE next \in {new_round(g) : g \in {self}} : TRUE

(* ------------------------------------------------------------ start_game *)

\* A faulty guard that lets a started game start again.
CannotStartUnlessFew(self) == Len(self.player_order) < min_players

\* The guard of start_game: too few members, or the game has started.
CannotStart(self) == Len(self.player_order) < min_players \/ self.started

\* Game.start_game.
start_game(self, seed) ==
    IF CannotStart(self)
    THEN Outcome(self, "start_game", NoPlayer, 0, "False")
    ELSE Outcome(StartNewRound([self EXCEPT !.started = TRUE], seed),
                 "start_game", NoPlayer, 0, "True")

(* --------------------------------------------------------- remove_player *)

\* Game.remove_player.
remove_player(self, player_id) ==
    Outcome(IF player_id \in Range(self.player_order)
            THEN [self EXCEPT
                     !.player_order = RemoveFirst(@, player_id),
                     !.players = Without(@, player_id),
                     !.scores = Without(@, player_id),
                     !.tricks_won = Without(@, player_id),
                     !.bids = Without(@, player_id),
                     !.current_round =
                         SelectSeq(@, LAMBDA e : e.player # player_id),
                     !.player_names = Without(@, player_id),
                     !.ai_players = @ \ {player_id},
                     !.roster_changed = TRUE]
            ELSE self,
            "remove_player", player_id, 0, "None")

(* -------------------------------------------------------------- make_bid *)

\* A faulty range check, off by one at the upper end.
BadBidOffByOne(self, bid) == bid < 0 \/ bid > self.cards_per_round + 1

\* The range check of make_bid: whether the bid is refused.
BadBid(self, bid) == bid < 0 \/ bid > self.cards_per_round

\* Game.make_bid.  The bid is recorded before player_order.index, which
\* raises ValueError for a current player who has left the roster.
make_bid(self, player_id, bid) ==
    IF ~self.started \/ self.phase # "bidding" \/ player_id # self.current_player
    THEN Outcome(self, "make_bid", player_id, bid, "False")
    ELSE IF BadBid(self, bid)
    THEN Outcome(self, "make_bid", player_id, bid, "False")
    ELSE LET bid_made == [self EXCEPT !.bids = With(@, player_id, bid)]
         IN IF self.current_player \notin Range(self.player_order)
            THEN Outcome(bid_made, "make_bid", player_id, bid, "ValueError")
            ELSE LET current_index ==
                         IndexOf(self.player_order, self.current_player) - 1
                     next_index == (current_index + 1) % Len(self.player_order)
                 IN Outcome(
                        IF Cardinality(DOMAIN bid_made.bids)
                               = Cardinality(DOMAIN self.players)
                        THEN [bid_made EXCEPT
                                 !.phase = "playing",
                                 !.current_player =
                                     At(self.player_order,
                                        (self.dealer_index + 1)
                                            % Len(self.player_order))]
                        ELSE [bid_made EXCEPT
                                 !.current_player =
                                     At(self.player_order, next_index)],
                        "make_bid", player_id, bid, "True")


(* ------------------------------------------------------- _evaluate_trick *)

\* One iteration of the loop of _evaluate_trick after the first: whether
\* `card` replaces `winning_card`.  The third test of the trump branch is an
\* elif: it is reached only when `card` is not of the trump suit.
Overtakes(card, winning_card, led, trump, stage) ==
    IF \/ stage = "no_trump"
       \/ /\ trump # NoCard
          /\ Suit(card) # Suit(trump)
          /\ Suit(winning_card) # Suit(trump)
    THEN \/ Suit(card) = led /\ Suit(winning_card) # led
         \/ /\ ~(Suit(card) = led /\ Suit(winning_card) # led)
            /\ Suit(card) = Suit(winning_card)
            /\ Power(card) > Power(winning_card)
    ELSE \/ Suit(card) = Suit(trump) /\ Suit(winning_card) # Suit(trump)
         \/ /\ Suit(card) = Suit(trump)
            /\ Suit(winning_card) = Suit(trump)
            /\ Power(card) > Power(winning_card)
         \/ /\ Suit(card) # Suit(trump)
            /\ Suit(card) = led
            /\ Suit(winning_card) # led

\* The loop of _evaluate_trick from entry k on, `w` being the winning entry
\* so far.
RECURSIVE EvalFrom(_, _, _, _, _, _)
EvalFrom(trick, k, w, led, trump, stage) ==
    IF k > Len(trick)
    THEN w.player
    ELSE EvalFrom(trick, k + 1,
                  IF Overtakes(trick[k].card, w.card, led, trump, stage)
                  THEN trick[k]
                  ELSE w,
                  led, trump, stage)

\* Game._evaluate_trick on a non-empty trick: the winning player.
EvaluateTrick(trick, led, trump, stage) ==
    EvalFrom(trick, 2, trick[1], led, trump, stage)

\* _evaluate_trick raises AttributeError (None has no attribute suit) when
\* its trump branch is reached with no trump card: from the second entry on,
\* outside the no_trump stage.
EvaluateRaises(trick, trump, stage) ==
    Len(trick) >= 2 /\ stage # "no_trump" /\ trump = NoCard

(* ---------------------------------------------------------- _score_round *)

\* A faulty score: the tricks of a bid that was met count once, not twice.
RoundPointsSingle(won, bid) ==
    IF won = bid THEN 10 + won ELSE won * 2

\* The points _score_round adds for a round.
RoundPoints(won, bid) ==
    IF won = bid THEN 10 + (won * 2) ELSE won * 2

\* The loop of _score_round over the players from position k on (self.players
\* keeps the roster's order); ok is FALSE when a player has no bid or no
\* tricks_won entry, where the loop stops with a KeyError.
RECURSIVE ScoreFrom(_, _, _, _, _)
ScoreFrom(order, k, sc, won, bd) ==
    IF k > Len(order)
    THEN [scores |-> sc, ok |-> TRUE]
    ELSE LET p == order[k]
         IN IF p \notin DOMAIN won \/ p \notin DOMAIN bd \/ p \notin DOMAIN sc
            THEN [scores |-> sc, ok |-> FALSE]
            ELSE ScoreFrom(order, k + 1,
                           [sc EXCEPT ![p] = @ + RoundPoints(won[p], bd[p])],
                           won, bd)

\* Game._score_round.
ScoreRound(order, sc, won, bd) == ScoreFrom(order, 1, sc, won, bd)


(* ------------------------------------------------------------- play_card *)

\* A faulty advance that leaves the turn with the player who just played.
SamePlayer(order, p) == p

\* The roster member after p, wrapping: player_order[(index(p) + 1) % len].
NextPlayer(order, p) == At(order, IndexOf(order, p) % Len(order))

\* self.tricks_won[trick_winner] += 1.
TrickWon(won, trick_winner) == [won EXCEPT ![trick_winner] = @ + 1]

\* current_round[player_id] = card.
Played(trick, player_id, card) ==
    IF \E k \in 1..Len(trick) : trick[k].player = player_id
    THEN [k \in 1..Len(trick) |->
             IF trick[k].player = player_id
             THEN [player |-> player_id, card |-> card]
             ELSE trick[k]]
    ELSE Append(trick, [player |-> player_id, card |-> card])

\* The 1-based position of player_cards[card_index], Python's negative
\* indices counting from the end.
Position(card_index, n) ==
    IF card_index >= 0 THEN card_index + 1 ELSE n + card_index + 1

\* any(card.suit == led for card in player_cards).
HasSuit(player_cards, led) ==
    \E k \in 1..Len(player_cards) : Suit(player_cards[k]) = led

\* Whether play_card refuses the card for not following suit.
BreaksSuit(player_cards, card, trick, led) ==
    /\ trick # <<>>
    /\ led # NoSuit
    /\ HasSuit(player_cards, led)
    /\ Suit(card) # led

\* The part of play_card after the card passed its checks: the card leaves
\* the hand and enters the trick (`played`); a full trick is evaluated and
\* goes to its winner (`taken`), and a finished round is scored and the next
\* one dealt from the deck shuffled by `seed`.  _evaluate_trick, the count of
\* the trick and _score_round may raise, and player_order.index of a current
\* player who has left the roster does.
PlayAccepted(self, player_id, card_index, card, seed) ==
    LET player_cards == self.players[player_id]
        led1 == IF self.current_round = <<>> THEN Suit(card) ELSE self.led_suit
        hands1 == [self.players EXCEPT ![player_id] =
                      RemoveAt(player_cards, Position(card_index, Len(player_cards)))]
        trick1 == Played(self.current_round, player_id, card)
        winner == EvaluateTrick(trick1, led1, self.trump_card, self.game_stage)
        won1 == TrickWon(self.tricks_won, winner)
        sc == ScoreRound(self.player_order, self.scores, won1, self.bids)
        played == [self EXCEPT !.players = hands1,
                               !.current_round = trick1,
                               !.led_suit = led1]
        taken == [self EXCEPT
                     !.players = hands1,
                     !.current_round = <<>>,
                     !.led_suit = NoSuit,
                     !.tricks_won = won1,
                     !.current_player = winner,
                     !.tricks_played = @ + 1,
                     !.resolved = [trick |-> trick1, led |-> led1,
                                   trump |-> self.trump_card,
                                   stage |-> self.game_stage,
                                   winner |-> winner]]
        counted == [taken EXCEPT
                       !.scores = sc.scores,
                       !.scored = [round |-> self.round_number,
                                   cards |-> self.cards_per_round,
                                   tricks_won |-> won1,
                                   bids |-> self.bids,
                                   changed |-> self.roster_changed]]
    IN IF Len(trick1) = Cardinality(DOMAIN self.players)
       THEN IF EvaluateRaises(trick1, self.trump_card, self.game_stage)
            THEN Outcome(played, "play_card", player_id, card_index,
                         "AttributeError")
            ELSE IF winner \notin DOMAIN self.tricks_won
            THEN Outcome(played, "play_card", player_id, card_index, "KeyError")
            ELSE IF \E q \in DOMAIN hands1 : Len(hands1[q]) # 0
            THEN Outcome(taken, "play_card", player_id, card_index, "True")
            ELSE IF ~sc.ok
            THEN Outcome(counted, "play_card", player_id, card_index, "KeyError")
            ELSE Outcome(StartNewRound([counted EXCEPT
                                           !.cards_per_round = @ + 1,
                                           !.round_number = @ + 1],
                                       seed),
                         "play_card", player_id, card_index, "True")
       ELSE IF self.current_player \notin Range(self.player_order)
       THEN Outcome(played, "play_card", player_id, card_index, "ValueError")
       ELSE Outcome([played EXCEPT
                        !.current_player =
                            NextPlayer(self.player_order, self.current_player)],
                    "play_card", player_id, card_index, "True")

\* Game.play_card.  self.players[player_id] raises KeyError for a current
\* player who has left the roster; an index below -len(hand) raises
\* IndexError; an index in -len(hand)..-1 is a card counted from the end.
play_card(self, player_id, card_index, seed) ==
    IF ~self.started \/ self.phase # "playing"
           \/ player_id # self.current_player
    THEN Outcome(self, "play_card", player_id, card_index, "False")
    ELSE IF player_id \notin DOMAIN self.players
    THEN Outcome(self, "play_card", player_id, card_index, "KeyError")
    ELSE IF card_index >= Len(self.players[player_id])
    THEN Outcome(self, "play_card", player_id, card_index, "False")
    ELSE IF card_index < -Len(self.players[player_id])
    THEN Outcome(self, "play_card", player_id, card_index, "IndexError")
    ELSE LET player_cards == self.players[player_id]
             card_to_play ==
                 player_cards[Position(card_index, Len(player_cards))]
         IN IF BreaksSuit(player_cards, card_to_play, self.current_round,
                          self.led_suit)
            THEN Outcome(self, "play_card", player_id, card_index, "False")
            ELSE PlayAccepted(self, player_id, card_index, card_to_play, seed)


(* --------------------------------------------------------------- AIPlayer *)

\* The score of a bid is a Python float.  The float x is the pair [t, d] of
\* integers with x = t/10 + d/(10 * 2^54): t counts the tenths that were
\* added, d is the deviation of the binary float from t/10.  1.0 and 0.5 are
\* exact; 0.8, 0.4 and 0.3 are the doubles nearest to them.
FloatZero == [t |-> 0, d |-> 0]

FloatOne == [t |-> 10, d |-> 0]

FloatHalf == [t |-> 5, d |-> 0]

Float08 == [t |-> 8, d |-> 8]

Float04 == [t |-> 4, d |-> 4]

Float03 == [t |-> 3, d |-> -2]

\* The binade of a sum below 32: j with the sum in [2^(j-2), 2^(j-1)), whose
\* floats are 10 * 2^j units apart (a unit is 1/(10 * 2^54)).
Binade(t, d) ==
    LET Below(T) == t < T \/ (t = T /\ d < 0)
    IN IF Below(5) THEN 0
       ELSE IF Below(10) THEN 1
       ELSE IF Below(20) THEN 2
       ELSE IF Below(40) THEN 3
       ELSE IF Below(80) THEN 4
       ELSE IF Below(160) THEN 5
       ELSE 6

\* 2^(54 - j) modulo 10.
PowerOfTwoMod10(j) == <<4, 2, 6, 8, 4, 2, 6, 8>>[j + 1]

\* What the exact sum t/10 + d units leaves over the floats of spacing
\* 10 * 2^j.
FloatRem(t, d, j) == ((2 ^ j) * ((t * PowerOfTwoMod10(j)) % 10) + d) % (10 * 2 ^ j)

\* x + a in double arithmetic: the exact sum, rounded to the nearest float of
\* its binade, a tie to the even one.
FloatAdd(x, a) ==
    LET t == x.t + a.t
        d == x.d + a.d
        j == Binade(t, d)
        U == 10 * 2 ^ j
        r == FloatRem(t, d, j)
        odd == FloatRem(t, d, j + 1) >= U
        up == 2 * r > U \/ (2 * r = U /\ odd)
    IN IF t = 0 THEN FloatZero
       ELSE [t |-> t, d |-> d - r + (IF up THEN U ELSE 0)]

\* round(x) of Python 3: the nearest integer, a tie to the even one.
FloatRound(x) ==
    LET q == x.t \div 10
        r == x.t % 10
    IN IF r > 5 \/ (r = 5 /\ (x.d > 0 \/ (x.d = 0 /\ q % 2 = 1)))
       THEN q + 1 ELSE q

\* AIPlayer._card_value: "2".."A" are worth 2..14.
CardValue(c) == Power(c) + 2

\* card.value in ['A', 'K'] and card.value in ['Q', 'J'].
AceOrKing(c) == CardValue(c) >= 13

QueenOrJack(c) == CardValue(c) \in {11, 12}

\* The loop of _calculate_trump_bid over the first n cards.
RECURSIVE TrumpScore(_, _, _)
TrumpScore(cards, n, trump_suit) ==
    IF n = 0 THEN FloatZero
    ELSE LET score == TrumpScore(cards, n - 1, trump_suit)
             card == cards[n]
         IN IF Suit(card) = trump_suit
            THEN IF AceOrKing(card) \/ QueenOrJack(card)
                 THEN FloatAdd(score, FloatOne)
                 ELSE FloatAdd(score, FloatHalf)
            ELSE IF AceOrKing(card) THEN FloatAdd(score, Float08)
            ELSE IF QueenOrJack(card) THEN FloatAdd(score, Float04)
            ELSE score

\* The loop of _calculate_no_trump_bid over the first n cards.
RECURSIVE NoTrumpScore(_, _)
NoTrumpScore(cards, n) ==
    IF n = 0 THEN FloatZero
    ELSE LET score == NoTrumpScore(cards, n - 1)
             v == CardValue(cards[n])
         IN IF v = 14 THEN FloatAdd(score, FloatOne)
            ELSE IF v = 13 THEN FloatAdd(score, Float08)
            ELSE IF v = 12 THEN FloatAdd(score, FloatHalf)
            ELSE IF v = 11 THEN FloatAdd(score, Float03)
            ELSE score

Max(a, b) == IF a >= b THEN a ELSE b

\* AIPlayer.calculate_bid; trump_card.suit if trump_card else None.
calculate_bid(cards, trump, stage) ==
    IF stage = "no_trump"
    THEN Max(0, FloatRound(NoTrumpScore(cards, Len(cards))))
    ELSE Max(0, FloatRound(TrumpScore(cards, Len(cards),
                                      IF trump # NoCard THEN Suit(trump)
                                      ELSE NoSuit)))

\* The 0-based indices 0..n-1 in order: enumerate(cards).
Indexes(n) == [k \in 1..n |-> k - 1]

\* AIPlayer._get_playable_cards, as the indices of the pairs it returns.
PlayableCards(cards, led) ==
    LET same_suit == SelectSeq(Indexes(Len(cards)),
                               LAMBDA i : Suit(cards[i + 1]) = led)
    IN IF led = NoSuit \/ same_suit = <<>> THEN Indexes(Len(cards))
       ELSE same_suit

\* The order of the tuples (is trump, value) that min and max compare.
KeyBefore(a, b) == a[1] < b[1] \/ (a[1] = b[1] /\ a[2] < b[2])

\* min(S, key = ...): the first element of the sequence S with the least
\* key; keys[k] is the key of S[k].
FirstLeast(S, keys) ==
    S[CHOOSE k \in 1..Len(S) :
        /\ \A j \in 1..Len(S) : ~KeyBefore(keys[j], keys[k])
        /\ \A j \in 1..(k - 1) : KeyBefore(keys[k], keys[j])]

\* max(S, key = ...): the first element of the sequence S with the greatest
\* key; keys[k] is the key of S[k].
FirstGreatest(S, keys) ==
    S[CHOOSE k \in 1..Len(S) :
        /\ \A j \in 1..Len(S) : ~KeyBefore(keys[k], keys[j])
        /\ \A j \in 1..(k - 1) : KeyBefore(keys[j], keys[k])]

\* The keys of the strategy: (card.suit == trump_suit, _card_value(card)),
\* and _card_value(card) alone.
TrumpKey(c, trump_suit) == <<IF Suit(c) = trump_suit THEN 1 ELSE 0, CardValue(c)>>

ValueKey(c) == <<0, CardValue(c)>>

\* AIPlayer._choose_lead_card.
ChooseLeadCard(cards, trump_suit) ==
    LET non_trump_high_cards ==
            SelectSeq(Indexes(Len(cards)),
                      LAMBDA i : /\ Suit(cards[i + 1]) # trump_suit
                                 /\ AceOrKing(cards[i + 1]))
    IN IF non_trump_high_cards # <<>> THEN non_trump_high_cards[1]
       ELSE FirstLeast(Indexes(Len(cards)),
                       [k \in 1..Len(cards) |-> TrumpKey(cards[k], trump_suit)])

\* AIPlayer._choose_follow_card; the trick is not empty.
ChooseFollowCard(cards, trick, trump_suit, led) ==
    LET playable == PlayableCards(cards, led)
        highest_played ==
            FirstGreatest([k \in 1..Len(trick) |-> trick[k].card],
                          [k \in 1..Len(trick) |->
                              TrumpKey(trick[k].card, trump_suit)])
        trump_cards ==
            SelectSeq(playable, LAMBDA i : Suit(cards[i + 1]) = trump_suit)
        can_win ==
            SelectSeq(playable,
                      LAMBDA i :
                          \/ /\ Suit(cards[i + 1]) = trump_suit
                             /\ Suit(highest_played) # trump_suit
                          \/ /\ Suit(cards[i + 1]) = Suit(highest_played)
                             /\ CardValue(cards[i + 1]) > CardValue(highest_played))
    IN IF playable = <<>> THEN 0
       ELSE IF /\ led # NoSuit
               /\ \A k \in 1..Len(playable) : Suit(cards[playable[k] + 1]) # led
       THEN IF trump_cards # <<>> THEN trump_cards[1] ELSE playable[1]
       ELSE IF can_win # <<>>
       THEN FirstLeast(can_win,
                       [k \in 1..Len(can_win) |-> ValueKey(cards[can_win[k] + 1])])
       ELSE FirstLeast(playable,
                       [k \in 1..Len(playable) |-> ValueKey(cards[playable[k] + 1])])

\* AIPlayer.choose_card.
choose_card(cards, trick, trump_suit, led) ==
    IF PlayableCards(cards, led) = <<>> THEN 0
    ELSE IF trick = <<>> THEN ChooseLeadCard(cards, trump_suit)
    ELSE ChooseFollowCard(cards, trick, trump_suit, led)


(* ------------------------------------------------------- handle_ai_turns *)

\* One pass of the loop of Game.handle_ai_turns after its sleep: nothing
\* unless the game has started and the current player is an AI player; then
\* the AI's bid or card is submitted through make_bid or play_card, whose
\* result the loop ignores.  self.players[current_player] raises KeyError for
\* a registered AI id that has no hand.
handle_ai_turns(self, seed) ==
    IF ~self.started \/ self.current_player \notin self.ai_players
    THEN Outcome(self, "handle_ai_turns", self.current_player, 0, "None")
    ELSE IF self.phase \notin {"bidding", "playing"}
    THEN Outcome(self, "handle_ai_turns", self.current_player, 0, "None")
    ELSE IF self.current_player \notin DOMAIN self.players
    THEN Outcome(self, "handle_ai_turns", self.current_player, 0, "KeyError")
    ELSE IF self.phase = "bidding"
    THEN make_bid(self, self.current_player,
                  calculate_bid(self.players[self.current_player],
                                self.trump_card, self.game_stage))
    ELSE play_card(self, self.current_player,
                   choose_card(self.players[self.current_player],
                               self.current_round,
                               IF self.trump_card # NoCard
                               THEN Suit(self.trump_card) ELSE NoSuit,
                               self.led_suit),
                   seed)

(* --------------------------------------------------------- specification *)

\* steps counts the operations that changed a game or the server.
Counted ==
    /\ steps' = IF gamevars' = gamevars /\ svars' = svars
                THEN steps ELSE steps + 1
    /\ removals' = IF Len(player_order') < Len(player_order)
                   THEN removals + 1 ELSE removals

\* The callers of make_bid and play_card: the player whose turn it is (a
\* member or not), and the first roster member whose turn it is not.
InTurn == {current_player} \ {NoPlayer}

OtherMembers == Range(player_order) \ {current_player}

OutOfTurn ==
    {p \in OtherMembers : \A q \in OtherMembers :
        IndexOf(player_order, p) <= IndexOf(player_order, q)}

Callers == InTurn \cup OutOfTurn

\* The card indices submitted in turn: every index of the hand, the first
\* index past it, the last card counted from the end, and the first negative
\* index before the hand.
IndexInputs(p) ==
    IF p \in DOMAIN players
    THEN {-(Len(players[p]) + 1), -1} \cup 0..Len(players[p])
    ELSE {-1, 0}

\* The calls of make_bid: in the bidding phase the least and the greatest
\* legal bid and the illegal bids next to them, from the player in turn; out
\* of turn or out of phase, the bid 0.
BidCalls ==
    IF phase = "bidding"
    THEN (InTurn \X {-1, 0, cards_per_round, cards_per_round + 1})
             \cup (OutOfTurn \X {0})
    ELSE Callers \X {0}

\* The calls of play_card: in the playing phase every index of IndexInputs
\* from the player in turn; out of turn or out of phase, the index 0.
PlayCalls ==
    IF phase = "playing"
    THEN {<<p, i>> : p \in InTurn, i \in UNION {IndexInputs(q) : q \in InTurn}}
             \cup (OutOfTurn \X {0})
    ELSE Callers \X {0}

\* A joining player takes id 1 or the id of the next roster position; once
\* the game has started, the late joiner is the outsider.
AddPlayer ==
    /\ steps < MaxSteps
    /\ \E p \in IF started THEN {Outsider} ELSE {1, Len(player_order) + 1} :
          Call(add_player(Game, p))
    /\ UNCHANGED svars
    /\ Counted

StartGame ==
    /\ steps < MaxSteps
    /\ \E seed \in Seeds : Call(start_game(Game, seed))
    /\ UNCHANGED svars
    /\ Counted

MakeBid ==
    /\ steps < MaxSteps
    /\ \E c \in BidCalls : Call(make_bid(Game, c[1], c[2]))
    /\ UNCHANGED svars
    /\ Counted

PlayCard ==
    /\ steps < MaxSteps
    /\ \E c \in PlayCalls, seed \in Seeds : Call(play_card(Game, c[1], c[2], seed))
    /\ UNCHANGED svars
    /\ Counted

\* A caller or the outsider disconnects; at most MaxRemovals members are
\* removed in one game.
RemovePlayer ==
    /\ steps < MaxSteps
    /\ \E p \in Callers \cup {Outsider} :
          /\ p \in Range(player_order) => removals < MaxRemovals
          /\ Call(remove_player(Game, p))
    /\ UNCHANGED svars
    /\ Counted

Next == AddPlayer \/ StartGame \/ MakeBid \/ PlayCard \/ RemovePlayer

Spec == Init /\ [][Next]_vars

(* --------------------------------------- a whole game of legal actions *)

\* §4.1 isLegalPlay as play_card decides it: the 0-based indices of the hand
\* that play_card accepts.
LegalIndexes(player_cards, trick, led) ==
    {i \in 0..(Len(player_cards) - 1) :
        ~BreaksSuit(player_cards, player_cards[i + 1], trick, led)}

Lowest(S) == CHOOSE i \in S : \A j \in S : i <= j

\* Players join in order until the game starts.
LongAdd ==
    /\ Len(player_order) < max_players
    /\ Call(add_player(Game, Len(player_order) + 1))
    /\ UNCHANGED svars
    /\ Counted

LongStart ==
    /\ ~started
    /\ Len(player_order) >= min_players
    /\ Call(start_game(Game, LongSeed))
    /\ UNCHANGED svars
    /\ Counted

\* The current player bids 0, which is legal in every round.
LongBid ==
    /\ started
    /\ phase = "bidding"
    /\ Call(make_bid(Game, current_player, 0))
    /\ UNCHANGED svars
    /\ Counted

\* The current player plays the first card of the hand that play_card accepts.
LongPlay ==
    /\ started
    /\ phase = "playing"
    /\ current_player \in DOMAIN players
    /\ \E legal \in {LegalIndexes(players[current_player], current_round,
                                   led_suit)} :
          /\ legal # {}
          /\ \E card_index \in {Lowest(legal)} :
                Call(play_card(Game, current_player, card_index, LongSeed))
    /\ UNCHANGED svars
    /\ Counted

LongNext == LongAdd \/ LongStart \/ LongBid \/ LongPlay

LongSpec == Init /\ [][LongNext]_vars

\* Every current player keeps submitting legal actions.
LongFairSpec == LongSpec /\ WF_vars(LongBid) /\ WF_vars(LongPlay)

(* --------------------------------------------------------------- registry *)

\* game.player_names[player_id] = player_name, as the websocket handlers
\* write it for a player of the game.
SetName(self, player_id, name) ==
    Outcome([self EXCEPT !.player_names = IF player_id \in DOMAIN self.players
                                          THEN With(@, player_id, name)
                                          ELSE @],
            "set_name", player_id, 0, "None")

\* The sessions of humans and AI players: joins of both kinds, the start,
\* legal bids and plays, and removals of members and of other ids.  A name is
\* set for the first human member that has none, and for an outsider.
RegAdd ==
    /\ steps < MaxRegSteps
    /\ \E p \in {1, Min(Len(player_order) + 1, Outsider)} : Call(add_player(Game, p))
    /\ UNCHANGED svars
    /\ Counted

RegAddAi ==
    /\ steps < MaxRegSteps
    /\ Call(add_ai_player(Game))
    /\ UNCHANGED svars
    /\ Counted

RegName ==
    /\ steps < MaxRegSteps
    /\ \E p \in {q \in Range(player_order) \cap 1..Outsider :
                     /\ q \notin DOMAIN player_names
                     /\ \A r \in Range(player_order) \cap 1..Outsider :
                           r \notin DOMAIN player_names => q <= r}
                 \cup {Outsider} :
          Call(SetName(Game, p, <<"name", p>>))
    /\ UNCHANGED svars
    /\ Counted

RegStart ==
    /\ steps < MaxRegSteps
    /\ Call(start_game(Game, LongSeed))
    /\ UNCHANGED svars
    /\ Counted

RegBid ==
    /\ steps < MaxRegSteps
    /\ started
    /\ phase = "bidding"
    /\ Call(make_bid(Game, current_player, 0))
    /\ UNCHANGED svars
    /\ Counted

RegPlay ==
    /\ steps < MaxRegSteps
    /\ started
    /\ phase = "playing"
    /\ current_player \in DOMAIN players
    /\ LegalIndexes(players[current_player], current_round, led_suit) # {}
    /\ Call(play_card(Game, current_player,
                      Lowest(LegalIndexes(players[current_player],
                                          current_round, led_suit)),
                      LongSeed))
    /\ UNCHANGED svars
    /\ Counted

RegRemove ==
    /\ steps < MaxRegSteps
    /\ \E p \in Range(player_order) \cup ai_players \cup {Outsider} :
          /\ p \in Range(player_order) => removals < MaxRegRemovals
          /\ Call(remove_player(Game, p))
    /\ UNCHANGED svars
    /\ Counted

RegistryNext ==
    RegAdd \/ RegAddAi \/ RegName \/ RegStart \/ RegBid \/ RegPlay \/ RegRemove

RegistrySpec == Init /\ [][RegistryNext]_vars


(* ----------------------------------------------------------------- server *)

\* player_name of websocket_endpoint before set_name has bound it.  A name
\* is a sequence of characters.
NoName == <<"unbound">>

\* str.strip(): the name without its leading and trailing whitespace (of
\* the whitespace characters, the space and the four escapes below occur).
RECURSIVE strip(_)
strip(s) ==
    LET whitespace == {" ", "\t", "\n", "\r", "\f"}
    IN IF s = <<>> THEN s
       ELSE IF Head(s) \in whitespace THEN strip(Tail(s))
       ELSE IF s[Len(s)] \in whitespace THEN strip(SubSeq(s, 1, Len(s) - 1))
       ELSE s

\* Game.__init__ for the Game numbered o, the deck of Deck.__init__ being d.
NewGame(o, d) ==
    [game_id |-> o,
     player_order |-> <<>>,
     players |-> EmptyMap,
     deck |-> d,
     current_player |-> NoPlayer,
     started |-> FALSE,
     trump_card |-> NoCard,
     current_round |-> <<>>,
     bids |-> EmptyMap,
     tricks_won |-> EmptyMap,
     scores |-> EmptyMap,
     round_number |-> 1,
     cards_per_round |-> 1,
     phase |-> "waiting",
     led_suit |-> NoSuit,
     dealer_index |-> 0,
     game_stage |-> "ascending",
     no_trump_rounds_played |-> 0,
     player_names |-> EmptyMap,
     ai_players |-> {},
     tricks_played |-> 0,
     roster_changed |-> FALSE,
     scored |-> [round |-> 0, cards |-> 0, tricks_won |-> EmptyMap,
                 bids |-> EmptyMap, changed |-> FALSE],
     resolved |-> [trick |-> <<>>, led |-> NoSuit, trump |-> NoCard,
                   stage |-> "ascending", winner |-> NoPlayer]]

\* The Game object numbered o: a handler or a task holds the object, in
\* manager.games or not.
GameObject(o) == IF o = 1 THEN Game ELSE others[o]

\* The call was made on the Game object numbered o.
Put(o, out) ==
    IF o = 1
    THEN Call(out) /\ UNCHANGED others
    ELSE /\ last_call' = out.call
         /\ others' = With(others, o, out.game)
         /\ UNCHANGED <<gamevars, tricks_played, roster_changed, scored,
                        resolved>>

\* An operation of the server that calls no operation of a Game: what it
\* returned or raised.
NoEffect(op, p, a, r) ==
    /\ last_call' = [op |-> op, player |-> p, arg |-> a, ret |-> r,
                     game |-> NoGame]
    /\ UNCHANGED <<gamevars, tricks_played, roster_changed, scored, resolved,
                   others>>

\* A message without a game_state entry.
NoState == [absent |-> TRUE]

\* Game.get_game_state but for created_at: the public fields and the hand of
\* player_id, empty for an id without a hand.
get_game_state(self, player_id) ==
    [game_id |-> self.game_id,
     players |-> self.player_order,
     current_player |-> self.current_player,
     started |-> self.started,
     trump_card |-> self.trump_card,
     current_round |-> self.current_round,
     bids |-> self.bids,
     tricks_won |-> self.tricks_won,
     scores |-> self.scores,
     round_number |-> self.round_number,
     cards_per_round |-> self.cards_per_round,
     phase |-> self.phase,
     game_stage |-> self.game_stage,
     player_names |-> self.player_names,
     your_cards |-> IF player_id \in DOMAIN self.players
                    THEN self.players[player_id] ELSE <<>>]

\* The entries of the dict get_game_state returns that are values or fresh
\* copies: they stay as they were when the message was built.
Copied(self, player_id) ==
    [game_id |-> self.game_id,
     current_player |-> self.current_player,
     started |-> self.started,
     trump_card |-> self.trump_card,
     current_round |-> self.current_round,
     round_number |-> self.round_number,
     cards_per_round |-> self.cards_per_round,
     phase |-> self.phase,
     game_stage |-> self.game_stage,
     your_cards |-> IF player_id \in DOMAIN self.players
                    THEN self.players[player_id] ELSE <<>>]

\* No broadcast is under way in a handler.
NoJob == [action |-> "none"]

\* json.dumps(message) in send_json, for the game_state of the message of a
\* broadcast of the Game `self`: the copies of the message as they were
\* built, and the Game's own objects as they are now: player_order, scores
\* and player_names for good, bids and tricks_won (live) until
\* _start_new_round binds new dicts, after which the message keeps the old
\* ones (frozen) as they were left.
Serialized(job, self) ==
    [game_id |-> job.state.game_id,
     players |-> self.player_order,
     current_player |-> job.state.current_player,
     started |-> job.state.started,
     trump_card |-> job.state.trump_card,
     current_round |-> job.state.current_round,
     bids |-> IF job.bids = [live |-> TRUE] THEN self.bids
              ELSE job.bids.frozen,
     tricks_won |-> IF job.won = [live |-> TRUE] THEN self.tricks_won
                    ELSE job.won.frozen,
     scores |-> self.scores,
     round_number |-> job.state.round_number,
     cards_per_round |-> job.state.cards_per_round,
     phase |-> job.state.phase,
     game_stage |-> job.state.game_stage,
     player_names |-> self.player_names,
     your_cards |-> job.state.your_cards]

\* A websocket is the pair of the player id of its path and the number of
\* the connection among those of the id.  A call of send_json(message) on
\* the websocket ws.
Message(ws, action, game_state) ==
    [to |-> ws[1], socket |-> ws[2], action |-> action,
     game_state |-> game_state]

\* The loop of ConnectionManager.broadcast_to_game over the live
\* player_order: the position of the next member at or after position n that
\* has a connection, 0 if there is none.
NextRecipient(order, n) ==
    LET K == {k \in n..Len(order) : order[k] \in DOMAIN active_connections}
    IN IF K = {} THEN 0 ELSE CHOOSE k \in K : \A j \in K : k <= j

\* _start_new_round bound new dicts to bids and tricks_won of the Game
\* numbered o: the messages of its broadcasts under way keep the old ones.
Rebound(hs, o, redealt, old_bids, old_won) ==
    IF ~redealt THEN hs
    ELSE [w \in DOMAIN hs |->
             IF hs[w].handler = "sending" /\ hs[w].job.game = o
             THEN [hs[w] EXCEPT
                      !.job.bids = IF @ = [live |-> TRUE]
                                   THEN [frozen |-> old_bids] ELSE @,
                      !.job.won = IF @ = [live |-> TRUE]
                                  THEN [frozen |-> old_won] ELSE @]
             ELSE hs[w]]

\* The handler of the websocket ws ends with an exception it does not catch;
\* nothing unregisters the websocket.  Of an ended handler the model keeps
\* what a send can meet: the websocket, while active_connections holds it.
Ended(hs, ws) ==
    IF ws[1] \in DOMAIN active_connections /\ active_connections[ws[1]] = ws
    THEN [hs EXCEPT ![ws].handler = "ended", ![ws].job = NoJob]
    ELSE Without(hs, ws)

\* The ended handlers of the player p.
Closed(p) == {w \in DOMAIN handlers : w[1] = p /\ handlers[w].handler = "ended"}

\* The handler of ws runs the loop of broadcast_to_game up to its next
\* await: send_json is called on the registered websocket of the next
\* member that has one, with the message as it serializes now, `self` being
\* the Game of the broadcast as the step leaves it.  On the websocket of a
\* handler that has ended the call returns or raises, and an exception ends
\* the handler of ws.  got is history: the members send_json was called for.
SendNext(ws, job, self, hs) ==
    LET k == NextRecipient(self.player_order, job.next)
        to == active_connections[self.player_order[k]]
    IN /\ sent' = {Message(to, job.action, Serialized(job, self))}
       /\ running' = NoTask
       /\ \/ handlers' =
                 [hs EXCEPT ![ws].handler = "sending",
                            ![ws].job = [job EXCEPT
                                            !.next = k + 1,
                                            !.got = @ \cup {self.player_order[k]}]]
          \/ /\ hs[to].handler = "ended"
             /\ handlers' = Ended(hs, ws)

\* What the handler of ws does when the loop of its broadcast is over, up to
\* its next await: it sends name_set and waits in receive_json, or waits in
\* receive_json at once, or takes the loop of start_game again, which it
\* reaches without an await: the event loop stays with it.
After(ws, job, hs) ==
    /\ sent' = IF job.after = "name_set"
               THEN {Message(ws, "name_set", NoState)} ELSE {}
    /\ handlers' =
           IF job.after = "fill"
           THEN [hs EXCEPT ![ws].handler = "looping",
                           ![ws].job = [action |-> "fill", game |-> job.game]]
           ELSE [hs EXCEPT ![ws].handler = "receiving", ![ws].job = NoJob]
    /\ running' = IF job.after = "fill"
                  THEN [task |-> "handler", ws |-> ws] ELSE NoTask

\* await manager.broadcast_to_game(...) after the handler of ws called an
\* operation of the Game numbered o, which left it as `self`: the message is
\* built from `self` in the view of the handler's player, and the loop runs
\* to its first await.  For a game that is not in manager.games, or whose
\* members have no connection, nothing is sent and nothing awaited.  `after`
\* is what the handler does when the loop is over.
Broadcast(ws, o, self, action, after, hs) ==
    LET job == [action |-> action, game |-> o, state |-> Copied(self, ws[1]),
                bids |-> [live |-> TRUE], won |-> [live |-> TRUE], next |-> 1,
                got |-> {}, after |-> after]
    IN IF o \in games /\ NextRecipient(self.player_order, 1) # 0
       THEN SendNext(ws, job, self, hs)
       ELSE After(ws, job, hs)

\* manager.get_game_by_player, which main.py calls and does not define: the
\* directory's find(playerId) of the specification, the game the player is
\* mapped to, or None.
get_game_by_player(player_id) ==
    IF player_id \in DOMAIN player_to_game
           /\ player_to_game[player_id] \in games
    THEN player_to_game[player_id]
    ELSE NoGame

\* The tasks run on one event loop (asyncio.create_task, uvicorn.run): a
\* task runs from one await to the next, and another task runs only when
\* the running one is suspended at an await.
Yielded == running = NoTask

\* The handler of ws waits in receive_json.
Receiving(ws) ==
    /\ Yielded
    /\ ws \in DOMAIN handlers
    /\ handlers[ws].handler = "receiving"

\* websocket_endpoint up to its loop, for a connection to /ws/<p>:
\* ConnectionManager.connect registers the new websocket for p, in the place
\* of the one that was registered; the handler of that one goes on with its
\* own websocket.
WsConnect(p) ==
    LET n == CHOOSE i \in 1..(Cardinality(DOMAIN handlers) + 1) :
                 /\ <<p, i>> \notin DOMAIN handlers
                 /\ \A j \in 1..(i - 1) : <<p, j>> \in DOMAIN handlers
        kept == [w \in DOMAIN handlers \ Closed(p) |-> handlers[w]]
    IN /\ Yielded
       /\ active_connections' = With(active_connections, p, <<p, n>>)
       /\ handlers' = With(kept, <<p, n>>,
                           [name |-> NoName, handler |-> "receiving",
                            job |-> NoJob])
       /\ NoEffect("connect", p, 0, "None")
       /\ sent' = {}
       /\ UNCHANGED <<created, games, player_to_game, schedulers, running>>

\* The branch "set_name": player_name is bound to the stripped name; an
\* empty one is refused; another is written into the first game of
\* manager.games that holds a hand of the player and broadcast to it, and
\* then acknowledged.
WsSetName(ws, name) ==
    LET p == ws[1]
        player_name == strip(name)
        named == [handlers EXCEPT ![ws].name = player_name]
        holding == {o \in games : p \in DOMAIN GameObject(o).players}
        o == Lowest(holding)
        out == SetName(GameObject(o), p, player_name)
    IN /\ Receiving(ws)
       /\ IF player_name = <<>>
          THEN /\ NoEffect("set_name", p, 0, "False")
               /\ sent' = {Message(ws, "error", NoState)}
               /\ handlers' = named
               /\ UNCHANGED running
          ELSE IF holding # {}
          THEN /\ Put(o, out)
               /\ Broadcast(ws, o, out.game, "name_updated", "name_set", named)
          ELSE /\ NoEffect("set_name", p, 0, "None")
               /\ sent' = {Message(ws, "name_set", NoState)}
               /\ handlers' = named
               /\ UNCHANGED running
       /\ UNCHANGED <<created, active_connections, games, player_to_game,
                      schedulers>>

\* The branch "create_game": nothing for a player who is mapped to a game;
\* else a new Game gets the player and the name, is registered, and its
\* state is sent to the creator.  Reading player_name before any set_name
\* raises UnboundLocalError: the Game is dropped and the handler ends.  The
\* first Game that is registered is the one the variables hold.
WsCreateGame(ws, seed) ==
    LET p == ws[1]
        o == created + 1
        out == add_player(NewGame(o, IF o = 1 THEN deck ELSE Shuffled(seed)), p)
        game == [out.game EXCEPT
                    !.player_names = With(@, p, handlers[ws].name)]
    IN /\ Receiving(ws)
       /\ IF p \in DOMAIN player_to_game
          THEN /\ NoEffect("create_game", p, 0, "None")
               /\ sent' = {}
               /\ UNCHANGED <<created, handlers, games, player_to_game>>
          ELSE IF handlers[ws].name = NoName
          THEN /\ NoEffect("create_game", p, 0, "UnboundLocalError")
               /\ handlers' = Ended(handlers, ws)
               /\ sent' = {}
               /\ UNCHANGED <<created, games, player_to_game>>
          ELSE /\ Put(o, Outcome(game, "create_game", p, 0, "True"))
               /\ created' = o
               /\ games' = games \cup {o}
               /\ player_to_game' = With(player_to_game, p, o)
               /\ sent' = {Message(ws, "game_created", get_game_state(game, p))}
               /\ UNCHANGED handlers
       /\ UNCHANGED <<active_connections, schedulers, running>>

\* The branch "join_game".
WsJoinGame(ws, game_id) ==
    LET p == ws[1]
        out == add_player(GameObject(game_id), p)
    IN /\ Receiving(ws)
       /\ IF game_id \in games
          THEN /\ Put(game_id, out)
               /\ IF out.call.ret = "True"
                  THEN /\ player_to_game' = With(player_to_game, p, game_id)
                       /\ Broadcast(ws, game_id, out.game, "player_joined",
                                    "receive", handlers)
                  ELSE /\ sent' = {Message(ws, "error", NoState)}
                       /\ UNCHANGED <<player_to_game, handlers, running>>
          ELSE /\ NoEffect("join_game", p, 0, "None")
               /\ sent' = {Message(ws, "error", NoState)}
               /\ UNCHANGED <<player_to_game, handlers, running>>
       /\ UNCHANGED <<created, active_connections, games, schedulers>>

\* One iteration of the branch "start_game" for the Game numbered o that the
\* lookup found: while the game has fewer than three hands an AI player is
\* added and announced; then the game is started, whatever start_game
\* returns a handle_ai_turns task is created, and game_started is broadcast.
\* Where add_player refuses the AI players (the game has started) the loop
\* never ends; where broadcast_to_game awaits nothing the loop keeps the
\* event loop.
Fill(ws, o, seed) ==
    LET self == GameObject(o)
        joined == add_ai_player(self)
        begun == start_game(self, seed)
    IN IF Cardinality(DOMAIN self.players) < 3
       THEN /\ Put(o, joined)
            /\ Broadcast(ws, o, joined.game, "player_joined", "fill", handlers)
            /\ UNCHANGED schedulers
       ELSE /\ Put(o, begun)
            /\ schedulers' = Append(schedulers, [game |-> o, turn |-> NoTurn])
            /\ Broadcast(ws, o, begun.game, "game_started", "receive",
                         Rebound(handlers, o, begun.call.ret = "True",
                                 self.bids, self.tricks_won))

\* The branch "start_game".
WsStartGame(ws, seed) ==
    /\ Receiving(ws)
    /\ IF get_game_by_player(ws[1]) = NoGame
       THEN /\ NoEffect("start_game", ws[1], 0, "None")
            /\ sent' = {}
            /\ UNCHANGED <<handlers, schedulers, running>>
       ELSE Fill(ws, get_game_by_player(ws[1]), seed)
    /\ UNCHANGED <<created, active_connections, games, player_to_game>>

\* The branch "make_bid": the bid is broadcast if make_bid accepts it, and
\* else refused to the caller; an exception ends the handler.
WsMakeBid(ws, bid) ==
    LET p == ws[1]
        o == get_game_by_player(p)
        out == make_bid(GameObject(o), p, bid)
    IN /\ Receiving(ws)
       /\ IF o = NoGame
          THEN /\ NoEffect("make_bid", p, bid, "None")
               /\ sent' = {}
               /\ UNCHANGED <<handlers, running>>
          ELSE /\ Put(o, out)
               /\ IF out.call.ret = "True"
                  THEN Broadcast(ws, o, out.game, "bid_made", "receive",
                                 handlers)
                  ELSE IF out.call.ret = "False"
                  THEN /\ sent' = {Message(ws, "error", NoState)}
                       /\ UNCHANGED <<handlers, running>>
                  ELSE /\ sent' = {}
                       /\ handlers' = Ended(handlers, ws)
                       /\ UNCHANGED running
       /\ UNCHANGED <<created, active_connections, games, player_to_game,
                      schedulers>>

\* The branch "play_card".
WsPlayCard(ws, card_index, seed) ==
    LET p == ws[1]
        o == get_game_by_player(p)
        self == GameObject(o)
        out == play_card(self, p, card_index, seed)
        hs == Rebound(handlers, o, out.game.round_number # self.round_number,
                      out.game.scored.bids, out.game.scored.tricks_won)
    IN /\ Receiving(ws)
       /\ IF o = NoGame
          THEN /\ NoEffect("play_card", p, card_index, "None")
               /\ sent' = {}
               /\ UNCHANGED <<handlers, running>>
          ELSE /\ Put(o, out)
               /\ IF out.call.ret = "True"
                  THEN Broadcast(ws, o, out.game, "card_played", "receive", hs)
                  ELSE IF out.call.ret = "False"
                  THEN /\ sent' = {Message(ws, "error", NoState)}
                       /\ UNCHANGED <<handlers, running>>
                  ELSE /\ sent' = {}
                       /\ handlers' = Ended(hs, ws)
                       /\ UNCHANGED running
       /\ UNCHANGED <<created, active_connections, games, player_to_game,
                      schedulers>>

\* The handler of ws goes on after the await of a send_json of its
\* broadcast: the loop sends to the next member, or is over.  A handler in
\* the loop of start_game goes on with its next iteration.
WsResume(ws, seed) ==
    /\ ws \in DOMAIN handlers
    /\ LET job == handlers[ws].job
       IN \/ /\ Yielded
             /\ handlers[ws].handler = "sending"
             /\ NoEffect("broadcast_to_game", ws[1], 0, "None")
             /\ IF NextRecipient(GameObject(job.game).player_order, job.next) # 0
                THEN SendNext(ws, job, GameObject(job.game), handlers)
                ELSE After(ws, job, handlers)
             /\ UNCHANGED schedulers
          \/ /\ running = [task |-> "handler", ws |-> ws]
             /\ handlers[ws].handler = "looping"
             /\ Fill(ws, job.game, seed)
    /\ UNCHANGED <<created, active_connections, games, player_to_game>>

\* A message without "action": data["action"] raises KeyError, which the
\* handler does not catch; it ends and its websocket stays registered.
WsMalformed(ws) ==
    /\ Receiving(ws)
    /\ NoEffect("receive_json", ws[1], 0, "KeyError")
    /\ handlers' = Ended(handlers, ws)
    /\ sent' = {}
    /\ UNCHANGED <<created, active_connections, games, player_to_game,
                   schedulers, running>>

\* WebSocketDisconnect at receive_json: ConnectionManager.disconnect drops
\* the websocket registered for the player, this one or another, removes the
\* player from the game it is mapped to and drops the mapping; the lookup
\* that follows finds no mapping, so player_left is never sent.
WsDisconnect(ws) ==
    LET p == ws[1]
        o == IF p \in DOMAIN player_to_game /\ player_to_game[p] \in games
             THEN player_to_game[p] ELSE NoGame
    IN /\ Receiving(ws)
       /\ active_connections' = Without(active_connections, p)
       /\ handlers' = [w \in DOMAIN handlers \ ({ws} \cup Closed(p)) |->
                          handlers[w]]
       /\ IF o # NoGame
          THEN Put(o, remove_player(GameObject(o), p))
          ELSE NoEffect("disconnect", p, 0, "None")
       /\ player_to_game' = Without(player_to_game, p)
       /\ sent' = {}
       /\ UNCHANGED <<created, games, schedulers, running>>

\* The handle_ai_turns task k wakes up and runs one pass of its loop on its
\* Game; it sends nothing, and a pass that raises ends the task.
Tick(k, seed) ==
    LET o == schedulers[k].game
        self == GameObject(o)
        out == handle_ai_turns(self, seed)
    IN /\ Yielded
       /\ k \in 1..Len(schedulers)
       /\ schedulers[k].turn = NoTurn
       /\ Put(o, out)
       /\ schedulers' = IF out.call.ret \in {"True", "False", "None"}
                        THEN schedulers ELSE RemoveAt(schedulers, k)
       /\ sent' = {}
       /\ handlers' =
              Rebound(handlers, o, out.game.round_number # self.round_number,
                      out.game.scored.bids, out.game.scored.tricks_won)
       /\ UNCHANGED <<created, active_connections, games, player_to_game,
                      running>>

\* The elements of a set of numbers in ascending order.
Ascending(S) ==
    [k \in 1..Cardinality(S) |->
        CHOOSE o \in S : Cardinality({x \in S : x < o}) = k - 1]

\* list_games, the handler of GET /games, at a time when the Games numbered
\* up to n were created more than 15 minutes ago.  Those of them that are in
\* manager.games are deleted from it, and the members of their rosters from
\* player_to_game, whatever game they are mapped to; a younger game that has
\* not started is listed with the size of its roster and the names of its
\* members, the id standing for a name that is missing.  A Game object stays
\* with the handlers and tasks that hold it.
list_games(n) ==
    LET expired_games == {o \in games : o <= n}
        active_games ==
            Ascending({o \in games \ expired_games : ~GameObject(o).started})
        listed(self) ==
            [game_id |-> self.game_id,
             player_count |-> Len(self.player_order),
             players |->
                 [k \in 1..Len(self.player_order) |->
                     IF self.player_order[k] \in DOMAIN self.player_names
                     THEN self.player_names[self.player_order[k]]
                     ELSE self.player_order[k]]]
        popped == UNION {Range(GameObject(o).player_order) : o \in expired_games}
    IN /\ Yielded
       /\ last_call' =
              [op |-> "list_games", player |-> NoPlayer, arg |-> 0,
               ret |-> "Dict", game |-> NoGame,
               games |-> [k \in 1..Len(active_games) |->
                             listed(GameObject(active_games[k]))]]
       /\ games' = games \ expired_games
       /\ player_to_game' =
              [q \in DOMAIN player_to_game \ popped |-> player_to_game[q]]
       /\ sent' = {}
       /\ UNCHANGED <<gamevars, tricks_played, roster_changed, scored, resolved,
                      others, created, active_connections, handlers,
                      schedulers, running>>

(* ------------------------------------------------- tasks of the event loop *)

\* A faulty pass that awaits once more, between the return of calculate_bid
\* or choose_card and the call of make_bid or play_card.
PassAwaitsDecided == {"sleep", "decided"}

\* The awaits of a pass of handle_ai_turns: the sleep at the head of the
\* loop (442) is the only one; the pass holds none from there to the return
\* of make_bid (455) or play_card (465).
PassAwaits == {"sleep"}

\* What a pass of handle_ai_turns on the Game `self` holds once it has
\* computed its action: the branch it took and the bid or card index it
\* computed; with them, for the record, the current player, hand, trick and
\* led suit it read.
AiDecision(self) ==
    [op |-> IF self.phase = "bidding" THEN "make_bid" ELSE "play_card",
     arg |-> IF self.phase = "bidding"
             THEN calculate_bid(self.players[self.current_player],
                                self.trump_card, self.game_stage)
             ELSE choose_card(self.players[self.current_player],
                              self.current_round,
                              IF self.trump_card # NoCard
                              THEN Suit(self.trump_card) ELSE NoSuit,
                              self.led_suit),
     player |-> self.current_player,
     hand |-> self.players[self.current_player],
     trick |-> self.current_round,
     led |-> self.led_suit]

\* The pass of the handle_ai_turns task k from its wake-up to the return of
\* calculate_bid or choose_card, where the game has started and an AI player
\* with a hand is in turn; else the whole pass, which calls neither.
TickDecide(k, seed) ==
    LET self == GameObject(schedulers[k].game)
    IN /\ Yielded
       /\ k \in 1..Len(schedulers)
       /\ schedulers[k].turn = NoTurn
       /\ IF /\ self.started
             /\ self.current_player \in self.ai_players
             /\ self.phase \in {"bidding", "playing"}
             /\ self.current_player \in DOMAIN self.players
          THEN /\ schedulers' = [schedulers EXCEPT ![k].turn = AiDecision(self)]
               /\ running' = IF "decided" \in PassAwaits THEN NoTask
                             ELSE [task |-> "pass", k |-> k]
               /\ sent' = {}
               /\ UNCHANGED <<gamevars, last_call, tricks_played, roster_changed,
                              scored, resolved, others, created,
                              active_connections, handlers, games,
                              player_to_game>>
          ELSE Tick(k, seed)

\* The rest of the pass: the action is submitted for self.current_player and
\* the task sleeps again, or ends if the call raises.
TickSubmit(k, seed) ==
    LET o == schedulers[k].game
        self == GameObject(o)
        turn == schedulers[k].turn
        out == IF turn.op = "make_bid"
               THEN make_bid(self, self.current_player, turn.arg)
               ELSE play_card(self, self.current_player, turn.arg, seed)
    IN /\ k \in 1..Len(schedulers)
       /\ turn # NoTurn
       /\ \/ running = [task |-> "pass", k |-> k]
          \/ "decided" \in PassAwaits /\ Yielded
       /\ Put(o, out)
       /\ schedulers' = IF out.call.ret \in {"True", "False", "None"}
                        THEN [schedulers EXCEPT ![k].turn = NoTurn]
                        ELSE RemoveAt(schedulers, k)
       /\ sent' = {}
       /\ running' = NoTask
       /\ handlers' =
              Rebound(handlers, o, out.game.round_number # self.round_number,
                      out.game.scored.bids, out.game.scored.tricks_won)
       /\ UNCHANGED <<created, active_connections, games, player_to_game>>


(* ------------------------------------------------- the server and its clients *)

\* The hand of p in the first Game, empty for an id without one.
HandOf(p) == IF p \in DOMAIN players THEN players[p] ELSE <<>>

\* The humans that connect.
Humans == 1..MaxHumans

\* The bid the client of p submits: in turn in the game it is mapped to, a
\* legal and an illegal one; else 0.
ClientBids(p) ==
    LET self == GameObject(get_game_by_player(p))
    IN IF get_game_by_player(p) # NoGame /\ p = self.current_player
              /\ self.phase = "bidding"
       THEN {0, self.cards_per_round + 1}
       ELSE {0}

\* The index the client of p submits: in turn in the game it is mapped to,
\* the first legal card and the first index past the hand; else 0.
ClientIndexes(p) ==
    LET self == GameObject(get_game_by_player(p))
        legal == LegalIndexes(self.players[p], self.current_round,
                              self.led_suit)
    IN IF get_game_by_player(p) # NoGame /\ p = self.current_player
              /\ self.phase = "playing" /\ p \in DOMAIN self.players
       THEN {Len(self.players[p])} \cup
            (IF legal # {} THEN {Lowest(legal)} ELSE {})
       ELSE {0}

\* A human connects; the host connects again, too, while a handler of an
\* earlier connection runs.
SrvConnect ==
    /\ steps < MaxServerSteps
    /\ \E p \in Humans :
          /\ Cardinality({w \in DOMAIN handlers : w[1] = p})
                 < (IF p = 1 THEN MaxSockets ELSE 1)
          /\ WsConnect(p)
    /\ Counted

\* The names a client submits: blank, plain and padded.
SrvSetName ==
    /\ steps < MaxServerSteps
    /\ \E ws \in DOMAIN handlers,
          name \in {<<" ">>, <<"A", "n", "n">>, <<" ", "A", "n", "n", " ">>} :
             WsSetName(ws, name)
    /\ Counted

SrvCreateGame ==
    /\ steps < MaxServerSteps
    /\ created < MaxGames
    /\ \E ws \in DOMAIN handlers : WsCreateGame(ws, LongSeed)
    /\ Counted

\* A client joins a game that was created, or one that was not.
SrvJoinGame ==
    /\ steps < MaxServerSteps
    /\ \E ws \in DOMAIN handlers, game_id \in 1..(created + 1) :
          WsJoinGame(ws, game_id)
    /\ Counted

SrvStartGame ==
    /\ steps < MaxServerSteps
    /\ \E ws \in DOMAIN handlers : WsStartGame(ws, LongSeed)
    /\ Len(schedulers') <= MaxSchedulers
    /\ Counted

SrvMakeBid ==
    /\ steps < MaxServerSteps
    /\ \E ws \in DOMAIN handlers :
          \E bid \in ClientBids(ws[1]) : WsMakeBid(ws, bid)
    /\ Counted

SrvPlayCard ==
    /\ steps < MaxServerSteps
    /\ \E ws \in DOMAIN handlers :
          \E i \in ClientIndexes(ws[1]) : WsPlayCard(ws, i, LongSeed)
    /\ Counted

\* A player who is mapped to a game sends a message the handler cannot read.
SrvMalformed ==
    /\ steps < MaxServerSteps
    /\ \E ws \in DOMAIN handlers :
          ws[1] \in DOMAIN player_to_game /\ WsMalformed(ws)
    /\ Counted

SrvDisconnect ==
    /\ steps < MaxServerSteps
    /\ \E ws \in DOMAIN handlers : WsDisconnect(ws)
    /\ Counted

SrvResume ==
    /\ steps < MaxServerSteps
    /\ \E ws \in DOMAIN handlers : WsResume(ws, LongSeed)
    /\ Len(schedulers') <= MaxSchedulers
    /\ Counted

SrvTick ==
    /\ steps < MaxServerSteps
    /\ \E k \in 1..Len(schedulers) : Tick(k, LongSeed)
    /\ Counted

\* A client asks for the list of games, at a time when none, some or all of
\* the games are too old to be listed.
SrvListGames ==
    /\ steps < MaxServerSteps
    /\ \E n \in 0..created : list_games(n)
    /\ Counted

\* The server before any connection; the first Game it will create starts
\* from one deck.
ServerInit == Init /\ deck = Shuffled(LongSeed)

ServerNext ==
    \/ SrvConnect \/ SrvSetName \/ SrvCreateGame \/ SrvJoinGame
    \/ SrvStartGame \/ SrvMakeBid \/ SrvPlayCard \/ SrvMalformed
    \/ SrvDisconnect \/ SrvResume \/ SrvTick \/ SrvListGames

\* The websocket handlers of the connected humans and the scheduler tasks of
\* their games under the event loop: a handler runs from one await to the
\* next, a pass of a task runs whole.
ServerSpec == ServerInit /\ [][ServerNext]_vars

(* ------------------------------------- a whole game against AI players *)

\* The human of the long game, and the websocket of its one connection.
Host == 1

HostSocket == <<Host, 1>>

\* The host connects, names itself and creates the game.
AiLongOpen ==
    /\ created = 0
    /\ IF handlers = EmptyMap THEN WsConnect(Host)
       ELSE IF handlers[HostSocket].name = NoName
       THEN WsSetName(HostSocket, <<"A", "n", "n">>)
       ELSE WsCreateGame(HostSocket, LongSeed)
    /\ Counted

\* The host asks for the start once: two AI players fill the roster.
AiLongStart ==
    /\ games # {}
    /\ ~started
    /\ WsStartGame(HostSocket, LongSeed)
    /\ Counted

\* In turn, the host bids 0 and plays the first card that play_card accepts.
AiLongHost ==
    /\ started
    /\ current_player = Host
    /\ \/ /\ phase = "bidding"
          /\ WsMakeBid(HostSocket, 0)
       \/ /\ phase = "playing"
          /\ LegalIndexes(HandOf(Host), current_round, led_suit) # {}
          /\ WsPlayCard(HostSocket,
                        Lowest(LegalIndexes(HandOf(Host), current_round,
                                            led_suit)),
                        LongSeed)
    /\ Counted

\* The host may leave during the first round, while another player is in
\* turn; the AI players play on.
AiLongLeave ==
    /\ started
    /\ round_number = 1
    /\ current_player # Host
    /\ WsDisconnect(HostSocket)
    /\ Counted

\* The handler of the host goes on after a send.
AiLongResume ==
    /\ WsResume(HostSocket, LongSeed)
    /\ Counted

\* The scheduler task of the game wakes up.
AiLongTick ==
    /\ Tick(1, LongSeed)
    /\ Counted

\* The list of games is asked for once the game is too old to be listed.
AiLongListGames ==
    /\ list_games(created)
    /\ Counted

AiLongNext ==
    \/ AiLongOpen \/ AiLongStart \/ AiLongHost \/ AiLongLeave \/ AiLongResume
    \/ AiLongTick \/ AiLongListGames

\* One human and two AI players play legal actions for as long as the game
\* takes them, with the human or without.
AiLongSpec == Init /\ [][AiLongNext]_vars

(* ---------------------------------------------------------------- AI game *)

\* One human and two AI players at the level of the Game object: the human
\* joins, the AI players are added, the game starts, the human submits legal
\* bids and cards in turn and the loop of handle_ai_turns plays the AI turns.
AiGameAdd ==
    /\ ~started
    /\ IF player_order = <<>> THEN Call(add_player(Game, Host))
       ELSE Len(player_order) < min_players /\ Call(add_ai_player(Game))
    /\ UNCHANGED svars
    /\ Counted

AiGameStart ==
    /\ ~started
    /\ Len(player_order) >= min_players
    /\ \E seed \in Seeds : Call(start_game(Game, seed))
    /\ UNCHANGED svars
    /\ Counted

\* In turn, the human bids nothing or everything, and plays any card that
\* play_card accepts.
AiGameHost ==
    /\ steps < MaxAiSteps
    /\ started
    /\ current_player = Host
    /\ \/ /\ phase = "bidding"
          /\ \E bid \in {0, cards_per_round} : Call(make_bid(Game, Host, bid))
       \/ /\ phase = "playing"
          /\ \E i \in LegalIndexes(HandOf(Host), current_round, led_suit),
                seed \in Seeds :
                 Call(play_card(Game, Host, i, seed))
    /\ UNCHANGED svars
    /\ Counted

\* One pass of the loop of handle_ai_turns.
AiGameTurn ==
    /\ steps < MaxAiSteps
    /\ started
    /\ \E seed \in Seeds : Call(handle_ai_turns(Game, seed))
    /\ UNCHANGED svars
    /\ Counted

AiGameNext == AiGameAdd \/ AiGameStart \/ AiGameHost \/ AiGameTurn

AiGameSpec == Init /\ [][AiGameNext]_vars

(* ------------------------------------------- handlers and passes interleaved *)

\* The host connects, and connects again while its first handler runs.
ConcConnect ==
    /\ steps < MaxConcSteps
    /\ Cardinality(DOMAIN handlers) < MaxSockets
    /\ WsConnect(Host)
    /\ Counted

ConcSetName ==
    /\ steps < MaxConcSteps
    /\ \E ws \in DOMAIN handlers : WsSetName(ws, <<"A", "n", "n">>)
    /\ Counted

ConcCreateGame ==
    /\ steps < MaxConcSteps
    /\ created < MaxGames
    /\ \E ws \in DOMAIN handlers : WsCreateGame(ws, LongSeed)
    /\ Counted

ConcJoinGame ==
    /\ steps < MaxConcSteps
    /\ \E ws \in DOMAIN handlers, game_id \in games : WsJoinGame(ws, game_id)
    /\ Counted

\* The host asks for the start, and asks again.
ConcStart ==
    /\ steps < MaxConcSteps
    /\ \E ws \in DOMAIN handlers : WsStartGame(ws, LongSeed)
    /\ Len(schedulers') <= MaxSchedulers
    /\ Counted

\* The host bids and plays, in turn and out of turn.
ConcBid ==
    /\ steps < MaxConcSteps
    /\ \E ws \in DOMAIN handlers :
          \E bid \in ClientBids(Host) : WsMakeBid(ws, bid)
    /\ Counted

ConcPlay ==
    /\ steps < MaxConcSteps
    /\ \E ws \in DOMAIN handlers :
          \E i \in ClientIndexes(Host) : WsPlayCard(ws, i, LongSeed)
    /\ Counted

ConcLeave ==
    /\ steps < MaxConcSteps
    /\ \E ws \in DOMAIN handlers : WsDisconnect(ws)
    /\ Counted

ConcResume ==
    /\ \E ws \in DOMAIN handlers : WsResume(ws, LongSeed)
    /\ Len(schedulers') <= MaxSchedulers
    /\ Counted
    /\ steps' <= MaxConcSteps

\* The scheduler tasks, their passes in two steps.
ConcDecide ==
    /\ steps < MaxConcSteps
    /\ \E k \in 1..Len(schedulers) : TickDecide(k, LongSeed)
    /\ Counted

ConcSubmit ==
    /\ \E k \in 1..Len(schedulers) : TickSubmit(k, LongSeed)
    /\ Counted

\* A request for the list of games, in time or late.
ConcListGames ==
    /\ steps < MaxConcSteps
    /\ \E n \in 0..created : list_games(n)
    /\ Counted

ConcNext ==
    \/ ConcConnect \/ ConcSetName \/ ConcCreateGame \/ ConcJoinGame
    \/ ConcStart \/ ConcBid \/ ConcPlay \/ ConcLeave \/ ConcResume
    \/ ConcDecide \/ ConcSubmit \/ ConcListGames

\* The handlers of one human and the scheduler tasks of its games under the
\* event loop.
ConcSpec == ServerInit /\ [][ConcNext]_vars

(* ------------------------------------------------------ a game played alone *)

\* Three players join and the game starts.
SoloAdd ==
    /\ ~started
    /\ Len(player_order) < min_players
    /\ Call(add_player(Game, Len(player_order) + 1))
    /\ UNCHANGED svars
    /\ Counted

SoloStart ==
    /\ ~started
    /\ Len(player_order) = min_players
    /\ Call(start_game(Game, LongSeed))
    /\ UNCHANGED svars
    /\ Counted

\* Before the first bid, the members that are not in turn leave.
SoloLeave ==
    /\ started
    /\ round_number = 1
    /\ bids = EmptyMap
    /\ \E p \in Range(player_order) \ {current_player} :
          Call(remove_player(Game, p))
    /\ UNCHANGED svars
    /\ Counted

\* The member that is left bids 0 and plays the first card of its hand,
\* round after round.
SoloBid ==
    /\ Len(player_order) = 1
    /\ phase = "bidding"
    /\ round_number <= MaxSoloRounds
    /\ Call(make_bid(Game, current_player, 0))
    /\ UNCHANGED svars
    /\ Counted

SoloPlay ==
    /\ Len(player_order) = 1
    /\ phase = "playing"
    /\ HandOf(current_player) # <<>>
    /\ Call(play_card(Game, current_player, 0, LongSeed))
    /\ UNCHANGED svars
    /\ Counted

SoloNext == SoloAdd \/ SoloStart \/ SoloLeave \/ SoloBid \/ SoloPlay

\* A started game whose members leave but one, who plays on alone.
SoloSpec == ServerInit /\ [][SoloNext]_vars


(* ----------------------------------------------------------------- claims *)

RECURSIVE SumOver(_, _)
SumOver(f, S) ==
    IF S = {} THEN 0
    ELSE LET p == CHOOSE q \in S : TRUE IN f[p] + SumOver(f, S \ {p})

\* The round/stage derivation of the specification for a roster of n: rounds
\* 1..floor(52/n) ascend with as many cards as the round's number, the next n
\* rounds are no_trump rounds of floor(52/n) cards, the rounds after them
\* descend one card a round, and the game is over once no card is left.
MaxCards(n) == DeckSize \div n

LastRound(n) == 2 * MaxCards(n) + n - 1

ExpectedStage(n, r) ==
    IF r <= MaxCards(n) THEN "ascending"
    ELSE IF r <= MaxCards(n) + n THEN "no_trump"
    ELSE "descending"

ExpectedCards(n, r) ==
    IF r <= MaxCards(n) THEN r
    ELSE IF r <= MaxCards(n) + n THEN MaxCards(n)
    ELSE MaxCards(n) - (r - MaxCards(n) - n)

\* C1: with a fixed roster of n in 3..5 and players who keep submitting legal
\* bids and plays, round r has the stage and the cards_per_round of the
\* derivation: 1, 2, 3, ... while cards_per_round * n fits the deck, then n
\* no_trump rounds of floor(52/n) cards, then descending rounds down to 0,
\* where the game is over.
C1_RoundSequence ==
    started =>
        LET n == Len(player_order)
        IN IF round_number > LastRound(n)
           THEN phase = "game_over"
           ELSE /\ phase \in {"bidding", "playing"}
                /\ game_stage = ExpectedStage(n, round_number)
                /\ cards_per_round = ExpectedCards(n, round_number)
                /\ cards_per_round * n <= DeckSize

\* C2: in a started session with an unchanged roster whose current players
\* keep submitting legal actions, the phase eventually is game_over, and from
\* then on no bid or card is accepted and no round is dealt.
C2_ReachesGameOver ==
    /\ started ~> (phase = "game_over")
    /\ [][phase = "game_over" => UNCHANGED gamevars]_vars

\* C3: the deck is never exhausted: in every round dealt, for a roster of 3..5,
\* every roster member starts bidding with exactly cards_per_round cards and,
\* unless the stage is no_trump, a trump card is present.
C3_NoDeckExhaustion ==
    (started /\ phase = "bidding") =>
        /\ \A p \in Range(player_order) : Len(players[p]) = cards_per_round
        /\ game_stage # "no_trump" => trump_card # NoCard

\* The sum of tricks_won over the roster.
RosterTricks == SumOver(tricks_won, Range(player_order) \cap DOMAIN tricks_won)

\* The sum of the tricks_won that the last scoring read.
ScoredTricks == SumOver(scored.tricks_won, DOMAIN scored.tricks_won)

\* C4: within a round the sum of tricks_won over all roster members
\* equals the number of tricks resolved so far in the round, and when the
\* round is scored the sum equals the cards_per_round of the round played.
C4_TrickSumAlways ==
    /\ started => RosterTricks = tricks_played
    /\ scored.round >= 1 => ScoredTricks = scored.cards

\* The step completes a round: play_card scored it and dealt the next.
RoundCompletes ==
    last_call'.op = "play_card" /\ round_number' = round_number + 1

\* C5: when a round completes each player's score increases by exactly
\* 10 + 2*tricks_won if the player's bid equals the tricks_won of the round
\* and by 2*tricks_won otherwise; no make_bid, play_card, add_player or
\* start_game step removes, decreases or resets a score, and a score changes
\* only at round completion.
C5_Scoring ==
    [][/\ RoundCompletes =>
            \A p \in Range(player_order) :
                LET won == scored'.tricks_won[p]
                    bid == bids[p]
                IN /\ won = tricks_won[p] + (IF resolved'.winner = p THEN 1 ELSE 0)
                   /\ scores'[p] =
                          scores[p] + (IF bid = won THEN 10 + 2 * won ELSE 2 * won)
       /\ ~RoundCompletes =>
            \A p \in DOMAIN scores \cap DOMAIN scores' : scores'[p] = scores[p]
       /\ last_call'.op \in {"make_bid", "play_card", "add_player", "start_game"} =>
            \A p \in DOMAIN scores :
                p \in DOMAIN scores' /\ scores'[p] >= scores[p]
      ]_vars

\* A round was scored in which one player met a bid of one trick and another
\* player missed the bid.
C5_Witness ==
    /\ scored.round >= 1
    /\ \E p, q \in DOMAIN scores \cap DOMAIN scored.bids :
          /\ scored.bids[p] = 1
          /\ scored.tricks_won[p] = 1
          /\ scores[p] = 12
          /\ scored.bids[q] # scored.tricks_won[q]
          /\ scores[q] = 2 * scored.tricks_won[q]

\* C6: in phase playing with a non-empty trick, play_card by the current
\* player of a card (at a valid index) whose suit differs from led_suit
\* returns false and changes nothing if the hand holds a card of led_suit,
\* and a play by a current player whose hand holds no card of led_suit is
\* accepted for every valid index.
C6_SuitFollowing ==
    [][(/\ last_call'.op = "play_card"
        /\ started
        /\ phase = "playing"
        /\ current_round # <<>>
        /\ last_call'.player = current_player
        /\ current_player \in DOMAIN players
        /\ last_call'.arg \in 0..(Len(players[current_player]) - 1))
       => LET hand == players[current_player]
              card == hand[last_call'.arg + 1]
              holds_led == \E k \in 1..Len(hand) : Suit(hand[k]) = led_suit
          IN /\ (Suit(card) # led_suit /\ holds_led) =>
                    (last_call'.ret = "False" /\ UNCHANGED gamevars)
             /\ ~holds_led => last_call'.ret = "True"
      ]_vars

\* C7: make_bid is accepted only when the phase is bidding, the caller is the
\* current player and 0 <= bid <= cards_per_round; in every other case it
\* returns false and changes nothing, so every bid recorded in bids lies in
\* 0..cards_per_round.
C7_BidChecked ==
    /\ [][last_call'.op = "make_bid" =>
            LET legal == /\ phase = "bidding"
                         /\ last_call'.player = current_player
                         /\ 0 <= last_call'.arg
                         /\ last_call'.arg <= cards_per_round
            IN /\ last_call'.ret = "True" => legal
               /\ bids' # bids => legal
               /\ ~legal => (last_call'.ret = "False" /\ UNCHANGED gamevars)
         ]_vars
    /\ [](\A p \in DOMAIN bids : bids[p] \in 0..cards_per_round)

\* The current player's bid of cards_per_round + 1 was refused in a bidding
\* phase in which the bid cards_per_round stands recorded.
C7_Witness ==
    /\ phase = "bidding"
    /\ last_call.op = "make_bid"
    /\ last_call.player = current_player
    /\ last_call.arg = cards_per_round + 1
    /\ last_call.ret = "False"
    /\ \E p \in DOMAIN bids : bids[p] = cards_per_round

\* C8: play_card returns false and changes nothing whenever the phase is not
\* playing, the caller is not the current player, or card_index is not in
\* 0..len(hand)-1, negative indices included.
C8_PlayChecked ==
    [][last_call'.op = "play_card" =>
          LET p == last_call'.player
              valid == /\ p \in DOMAIN players
                       /\ last_call'.arg \in 0..(Len(players[p]) - 1)
          IN (phase # "playing" \/ p # current_player \/ ~valid) =>
                 (last_call'.ret = "False" /\ UNCHANGED gamevars)
      ]_vars

\* The winner the specification names for a full trick: the player of the
\* highest card of the trump suit if a trump is active and a card of its suit
\* was played, otherwise the player of the highest card of the led suit.
SuitEntries(trick, suit) == {k \in 1..Len(trick) : Suit(trick[k].card) = suit}

Highest(trick, S) ==
    trick[CHOOSE k \in S : \A j \in S : Power(trick[j].card) <= Power(trick[k].card)]

ExpectedWinner(trick, led, trump, stage) ==
    IF /\ stage # "no_trump"
       /\ trump # NoCard
       /\ SuitEntries(trick, Suit(trump)) # {}
    THEN Highest(trick, SuitEntries(trick, Suit(trump))).player
    ELSE Highest(trick, SuitEntries(trick, led)).player

\* C9: for every full trick of legal play (the first entry is the led card,
\* all cards distinct) the winner _evaluate_trick returns is the player of
\* the highest trump-suit card if a trump is active and a trump-suit card is
\* in the trick, and otherwise the player of the highest led-suit card.
C9_TrickWinner ==
    (/\ resolved.winner # NoPlayer
     /\ resolved.led = Suit(resolved.trick[1].card)
     /\ \A j, k \in 1..Len(resolved.trick) :
           j # k => resolved.trick[j].card # resolved.trick[k].card)
    => resolved.winner =
           ExpectedWinner(resolved.trick, resolved.led, resolved.trump,
                          resolved.stage)

\* C10: in every reachable state with phase bidding or playing, the current
\* player is set and is a member of the roster.
C10_CurrentInRoster ==
    phase \in {"bidding", "playing"} =>
        current_player # NoPlayer /\ current_player \in Range(player_order)

\* The keys of the dict current_round.
TrickPlayers == {current_round[k].player : k \in 1..Len(current_round)}

\* C11: in every state between operations of a started session, states after
\* remove_player included, the trick in progress has strictly fewer entries
\* than the roster has members and each of its keys is a roster member.
C11_TrickBelowRoster ==
    started =>
        /\ Len(current_round) < Len(player_order)
        /\ TrickPlayers \subseteq Range(player_order)

\* C12: add_player returns false and changes nothing when the roster has 5
\* members or the session has started; the roster never exceeds 5 members,
\* holds no id twice, and gains no member once start_game has succeeded.
C12_RosterClosed ==
    /\ [][/\ (last_call'.op = "add_player"
               /\ (Len(player_order) >= 5 \/ started))
             => (last_call'.ret = "False" /\ UNCHANGED gamevars)
          /\ started => Range(player_order') \subseteq Range(player_order)
         ]_vars
    /\ [](/\ Len(player_order) <= 5
          /\ \A j, k \in 1..Len(player_order) :
                j # k => player_order[j] # player_order[k])

\* A sixth id was refused by a full roster before the start.
C12_Witness ==
    /\ ~started
    /\ Len(player_order) = 5
    /\ last_call.op = "add_player"
    /\ last_call.player \notin Range(player_order)
    /\ last_call.ret = "False"

\* C13: start_game returns false and changes nothing when the roster has
\* fewer than 3 members or the session is started; it succeeds at most once,
\* and right after it succeeds the roster has 3..5 members, the phase is
\* bidding and round 1 is dealt with cards_per_round = 1.
C13_StartOnce ==
    [][last_call'.op = "start_game" =>
          /\ (Len(player_order) < 3 \/ started)
                 => (last_call'.ret = "False" /\ UNCHANGED gamevars)
          /\ last_call'.ret = "True" =>
                 /\ ~started
                 /\ started'
                 /\ Len(player_order') \in 3..5
                 /\ phase' = "bidding"
                 /\ round_number' = 1
                 /\ cards_per_round' = 1
                 /\ \A p \in Range(player_order') : Len(players'[p]) = 1
      ]_vars

\* A second start_game was refused in a started session.
C13_Witness ==
    /\ started
    /\ last_call.op = "start_game"
    /\ last_call.ret = "False"
    /\ round_number = 1
    /\ \A p \in Range(player_order) : Len(players[p]) = 1

\* The function f without the key p.
Others(f, p) == [q \in DOMAIN f \ {p} |-> f[q]]

\* C14: after remove_player(p) of a roster member, in any phase, p is in none
\* of the roster, hands, scores, tricks_won, bids, trick, display names and
\* AI registry, while every other player's entries and the order of the
\* remaining roster are unchanged; remove_player of an id that is not in the
\* roster changes nothing and does not fail.
C14_RemoveFrame ==
    [][last_call'.op = "remove_player" =>
          LET p == last_call'.player
          IN /\ last_call'.ret = "None"
             /\ p \notin Range(player_order) => UNCHANGED gamevars
             /\ p \in Range(player_order) =>
                   /\ p \notin Range(player_order')
                   /\ p \notin DOMAIN players' \cup DOMAIN scores'
                          \cup DOMAIN tricks_won' \cup DOMAIN bids'
                          \cup DOMAIN player_names' \cup ai_players'
                   /\ \A k \in 1..Len(current_round') :
                         current_round'[k].player # p
                   /\ player_order' =
                          SelectSeq(player_order, LAMBDA q : q # p)
                   /\ players' = Others(players, p)
                   /\ scores' = Others(scores, p)
                   /\ tricks_won' = Others(tricks_won, p)
                   /\ bids' = Others(bids, p)
                   /\ player_names' = Others(player_names, p)
                   /\ ai_players' = ai_players \ {p}
                   /\ current_round' =
                          SelectSeq(current_round, LAMBDA e : e.player # p)
      ]_vars

\* An AI member that had a bid and a card in the trick was removed in the
\* playing phase from a session that keeps a named human and another AI.
C14_Witness ==
    /\ last_call.op = "remove_player"
    /\ last_call.player > Outsider
    /\ last_call.player \notin Range(player_order)
    /\ roster_changed
    /\ phase = "playing"
    /\ current_round # <<>>
    /\ ai_players # {}
    /\ \E q \in Range(player_order) :
          q \in DOMAIN player_names /\ player_names[q] = <<"name", q>>

\* The current player has an action the session accepts: a bid of 0 in the
\* bidding phase, a card that play_card does not refuse in the playing phase.
HasAcceptedAction ==
    /\ current_player \in Range(player_order)
    /\ phase = "playing" =>
           LegalIndexes(players[current_player], current_round, led_suit) # {}

\* C17: after remove_player in phase bidding or playing, whichever player is
\* removed, gameplay can continue: a remaining roster member is current and
\* has an action the session accepts (so that legal actions complete the
\* trick and the round).
C17_PlayContinues ==
    (/\ started
     /\ phase \in {"bidding", "playing"}
     /\ last_call.op = "remove_player"
     /\ player_order # <<>>)
    => HasAcceptedAction

\* The roster member immediately after the dealer.
AfterDealer(order, dealer) == order[((dealer + 1) % Len(order)) + 1]

\* The roster member after p in roster order, wrapping.
Successor(order, p) ==
    LET k == CHOOSE j \in 1..Len(order) : order[j] = p
    IN order[(k % Len(order)) + 1]

\* A round is dealt by the step: by start_game or by the play that completes
\* a round.
Dealt == (~started /\ started') \/ round_number' # round_number

\* C18: in each round bidding starts with the roster member after the dealer
\* and proceeds in roster order, each member bidding exactly once; the phase
\* becomes playing exactly when every roster member has a recorded bid, and
\* then the current player is the member after the dealer; in every state
\* with phase playing every roster member has a bid.
C18_BiddingOrder ==
    /\ [][/\ Dealt =>
               /\ phase' = "bidding"
               /\ bids' = EmptyMap
               /\ current_player' = AfterDealer(player_order', dealer_index')
          /\ (last_call'.op = "make_bid" /\ last_call'.ret = "True") =>
               /\ current_player \notin DOMAIN bids
               /\ bids' = [q \in DOMAIN bids \cup {current_player} |->
                              IF q = current_player
                              THEN last_call'.arg ELSE bids[q]]
               /\ IF Range(player_order) \subseteq DOMAIN bids'
                  THEN /\ phase' = "playing"
                       /\ current_player' =
                              AfterDealer(player_order, dealer_index)
                  ELSE /\ phase' = "bidding"
                       /\ current_player' =
                              Successor(player_order, current_player)
          /\ (phase = "bidding" /\ phase' = "playing") =>
               (last_call'.op = "make_bid" /\ last_call'.ret = "True")
         ]_vars
    /\ [](/\ phase = "playing" => Range(player_order) \subseteq DOMAIN bids
          /\ (started /\ phase = "bidding" /\ player_order # <<>>) =>
                ~(Range(player_order) \subseteq DOMAIN bids))

\* C19: when an accepted play_card completes a trick and the round is not
\* over, the trick is empty, led_suit is unset, the winner's tricks_won grew
\* by exactly 1, all others unchanged, and the winner is the current player;
\* when the trick is not complete, the current player advances to the next
\* roster member in order, wrapping, and tricks_won is unchanged.
C19_TrickStep ==
    [][(last_call'.op = "play_card" /\ last_call'.ret = "True"
          /\ round_number' = round_number) =>
          IF Len(current_round) + 1 = Len(player_order)
          THEN /\ current_round' = <<>>
               /\ led_suit' = NoSuit
               /\ resolved'.trick = current_round
                      \o <<[player |-> current_player,
                            card |-> players[current_player][
                                Position(last_call'.arg,
                                         Len(players[current_player]))]]>>
               /\ current_player' = resolved'.winner
               /\ tricks_won' =
                      [q \in DOMAIN tricks_won |->
                          IF q = resolved'.winner
                          THEN tricks_won[q] + 1 ELSE tricks_won[q]]
          ELSE /\ current_player' = Successor(player_order, current_player)
               /\ tricks_won' = tricks_won
               /\ Len(current_round') = Len(current_round) + 1
      ]_vars

\* A trick of a round of two cards was resolved, its winner leads the next
\* trick, and the first card of that trick passed the turn on.
C19_Witness ==
    /\ phase = "playing"
    /\ tricks_played = 1
    /\ cards_per_round = 2
    /\ Len(current_round) = 1
    /\ current_round[1].player = resolved.winner
    /\ tricks_won[resolved.winner] = 1
    /\ current_player = Successor(player_order, resolved.winner)
    /\ last_call.op = "play_card"
    /\ last_call.ret = "True"

\* The messages of the last handler that carry a game_state.
Snapshots == {m \in sent : m.game_state # NoState}

\* C15: every state snapshot a recipient receives, sent to it directly or by
\* the broadcast that follows a join, a start, a bid or a card play, holds
\* no card of another player's hand: the cards it shows are cards of the
\* recipient's own hand.
C15_OwnHandOnly ==
    \A m \in Snapshots :
        Range(m.game_state.your_cards) \subseteq
            Range(get_game_state(GameObject(m.game_state.game_id),
                                 m.to).your_cards)

\* The last operation was an accepted mutation of the game: a player or an
\* AI player joined, the game started, a bid or a card was taken.
AcceptedMutation ==
    \/ /\ last_call.op \in {"create_game", "add_player", "start_game",
                            "make_bid", "play_card"}
       /\ last_call.ret = "True"
    \/ /\ last_call.op = "add_ai_player"
       /\ last_call.player \in Range(GameObject(last_call.game).player_order)

\* The last operation was refused by the game.
RejectedAction ==
    /\ last_call.op \in {"add_player", "start_game", "make_bid", "play_card"}
    /\ last_call.ret = "False"

\* m carries the state of the game as it is now, in somebody's view.
Fresh(m) ==
    LET self == GameObject(m.game_state.game_id)
    IN \E v \in DOMAIN self.players \cup {NoPlayer} :
          m.game_state = get_game_state(self, v)

\* The loop of the broadcast of the handler of ws is over in this step.
BroadcastOver(ws) ==
    /\ handlers[ws].handler = "sending"
    /\ NextRecipient(GameObject(handlers[ws].job.game).player_order,
                     handlers[ws].job.next) = 0
    /\ WsResume(ws, LongSeed)

\* C16: every accepted mutation of the game, by a human's handler or by the
\* scheduler for an AI player, is followed by a broadcast of a fresh state
\* snapshot to every roster member (that has a connection): the step of the
\* mutation sends a fresh snapshot, every snapshot sent shows the game as it
\* is when it is sent, and when the loop of a broadcast is over every
\* connected member of the roster is among those it sent to; a refused action
\* comes with no snapshot.
C16_BroadcastFollows ==
    [][/\ AcceptedMutation' => \E m \in Snapshots' : Fresh(m)'
       /\ RejectedAction' => Snapshots' = {}
       /\ \A m \in Snapshots' : Fresh(m)'
       /\ \A ws \in DOMAIN handlers :
              BroadcastOver(ws) =>
                  Range(GameObject(handlers[ws].job.game).player_order)
                          \cap DOMAIN active_connections
                      \subseteq handlers[ws].job.got]_vars

\* C20: a pass of the scheduler changes the game only if the game has
\* started and the current player is an AI player, and then it submits one
\* action for that player which the game accepts: a bid within
\* 0..cards_per_round, or the index of a card of the hand that follows suit.
C20_AiTurnAccepted ==
    [][(\E k \in 1..Len(schedulers), seed \in Seeds :
           schedulers[k].game = 1 /\ Tick(k, seed)) =>
          IF started /\ current_player \in ai_players
          THEN /\ last_call'.player = current_player
               /\ last_call'.ret = "True"
               /\ \/ /\ phase = "bidding"
                     /\ last_call'.op = "make_bid"
                     /\ last_call'.arg \in 0..cards_per_round
                  \/ /\ phase = "playing"
                     /\ last_call'.op = "play_card"
                     /\ last_call'.arg \in
                            LegalIndexes(HandOf(current_player), current_round,
                                         led_suit)
          ELSE UNCHANGED gamevars]_vars

\* The trump suit the scheduler hands to choose_card.
TrumpSuit == IF trump_card # NoCard THEN Suit(trump_card) ELSE NoSuit

\* The 0-based indices of the cards of the trump suit in a hand.
TrumpIndexes(cards, trump_suit) ==
    {i \in 0..(Len(cards) - 1) : Suit(cards[i + 1]) = trump_suit}

\* The index of the lowest-power trump card of a hand that holds one, else
\* the index of the first card.
LowestTrumpOrFirst(cards, trump_suit) ==
    LET T == TrumpIndexes(cards, trump_suit)
    IN IF T = {} THEN 0
       ELSE CHOOSE i \in T : \A j \in T : Power(cards[i + 1]) <= Power(cards[j + 1])

\* An AI player is in turn to follow a trick and holds no card of the led
\* suit.
AiFollowsVoid ==
    /\ started
    /\ phase = "playing"
    /\ current_player \in ai_players
    /\ current_round # <<>>
    /\ led_suit # NoSuit
    /\ HandOf(current_player) # <<>>
    /\ ~HasSuit(HandOf(current_player), led_suit)

\* C22: when an AI player follows a trick and holds no card of the led suit,
\* the index the scheduler submits for it is that of the lowest-power trump
\* card of its hand if it holds a trump card, whatever the order of the hand,
\* and otherwise that of the first card of the hand.
C22_VoidFollow ==
    [][(AiFollowsVoid /\ \E seed \in Seeds : Call(handle_ai_turns(Game, seed))) =>
          /\ last_call'.op = "play_card"
          /\ last_call'.arg =
                 LowestTrumpOrFirst(HandOf(current_player), TrumpSuit)]_vars

\* C24: every id of the AI registry is a member of the roster, and every call
\* of add_ai_player returns an id that was neither in the roster nor in the
\* registry before the call and adds exactly one member, that id, to the
\* roster.
C24_AiRegistered ==
    [][/\ ai_players' \subseteq Range(player_order')
       /\ Call(add_ai_player(Game)) =>
              /\ last_call'.player \notin Range(player_order) \cup ai_players
              /\ player_order' = Append(player_order, last_call'.player)]_vars

\* The number of cards held in the hands of a set of ids.
RECURSIVE HeldCount(_)
HeldCount(S) ==
    IF S = {} THEN 0
    ELSE LET p == CHOOSE q \in S : TRUE
         IN Len(players[p]) + HeldCount(S \ {p})

\* The cards of the session: in the hands, in the trick, the trump card and
\* in the deck, as a set and as a count.
SessionCards ==
    UNION {Range(players[p]) : p \in DOMAIN players}
        \cup {current_round[k].card : k \in 1..Len(current_round)}
        \cup ({trump_card} \ {NoCard})
        \cup Range(deck)

SessionCardCount ==
    HeldCount(DOMAIN players) + Len(current_round)
        + (IF trump_card = NoCard THEN 0 ELSE 1) + Len(deck)

\* Between two tricks of a round.
TrickBoundary == started /\ phase = "playing" /\ current_round = <<>>

\* C23: in a started session the cards of the hands, of the trick, the trump
\* card and the cards of the deck are pairwise distinct cards of the 52-card
\* deck, and between two tricks of the playing phase every roster member
\* holds cards_per_round minus the number of tricks resolved in the round.
C23_CardConservation ==
    started =>
        /\ SessionCards \subseteq 0..(DeckSize - 1)
        /\ Cardinality(SessionCards) = SessionCardCount
        /\ TrickBoundary =>
               \A p \in Range(player_order) :
                   Len(HandOf(p)) = cards_per_round - tricks_played

\* The first half of C23 alone.
C23_NoDuplicate ==
    started =>
        /\ SessionCards \subseteq 0..(DeckSize - 1)
        /\ Cardinality(SessionCards) = SessionCardCount

\* A step of the handler of a human that calls make_bid or play_card.
HumanAction ==
    \E ws \in DOMAIN handlers :
        \/ \E bid \in ClientBids(ws[1]) : WsMakeBid(ws, bid)
        \/ \E seed \in Seeds : \E i \in ClientIndexes(ws[1]) :
              WsPlayCard(ws, i, seed)

====
